---- MODULE Spec2Model ----
(***************************************************************************)
(* The voice question-answer pipeline of the main process: the IPC handler *)
(* voice:save-and-transcribe (admission, audio persistence, transcription, *)
(* candidate models, streaming generation with fallback, history update),  *)
(* the small voice:* handlers next to it, resetAll, and the panel's abort  *)
(* button.  The handler is an async function: every await is a point where *)
(* other handlers run, so each action below is the code between two awaits.*)
(* The main window is taken to exist throughout (window lifecycle is not   *)
(* part of the pipeline), so every webContents.send is delivered.          *)
(***************************************************************************)
EXTENDS Integers, Sequences, FiniteSets, TLC

\* ---------------------------------------------------------------- bounds
MaxSlots == 2          \* handler invocations that may overlap
MaxAdmin == 2          \* clear / toggle / set-model / reset / abort calls in a run
MaxReadErrors == 1     \* candidates of one request whose stream breaks while it is read
MaxSubmit == 2         \* Spec: submissions in a run
MaxStreamSubmit == 1   \* SpecStream: submissions in a run
MaxHistSubmit == 16    \* SpecHist: submissions in a run
MaxPromptSubmit == 4   \* SpecPrompt: submissions in a run
MaxInputSubmit == 1    \* SpecInput: submissions in a run
MaxContextCalls == 2   \* set-context and get-context calls in a run
MaxPanelSubmit == 2    \* SpecPanel: submissions in a run

\* ------------------------------------------------------ program constants
VOICE_HISTORY_MAX_TURNS == 15
VOICE_HISTORY_CHAR_LIMIT == 2500
\* voiceContext = (ctx || '').slice(0, 4000)
ContextLimit == 4000
\* 'Previous exchanges (context):\n'.length
HeaderChars == 30

defaultModels == <<"phi3:latest", "mistral:latest", "llama3", "gemma3:12b-it-qat">>

ErrBusy == "Another voice request in progress"
ErrNoBuffer == "No audio buffer provided"
ErrWrite == "ENOSPC: no space left on device, write"
ErrFormData == "FormData constructor unavailable (install form-data or upgrade Node)"
ErrForm == "Failed to prepare transcription request"
ErrStt == "Transcription failed"
ErrEmptyStt == "Empty transcription result"
ErrAllModels == "LLM generation failed for all models"
NoAnswerText == "No answer generated."
ErrInvalidModel == "Invalid model"

\* ------------------------------------------------------------ data shapes
Slots == 1..MaxSlots

\* A text is a sequence of symbols; the empty text is <<>>.
NoText == <<>>
\* The words spoken in recording n.
Utterance(n) == <<n>>

\* A piece of answer text produced by model m.
Tok(m, c) == <<m, c>>
NoAnswer == <<Tok("", NoAnswerText)>>

\* One line of the generation stream as the server wrote it.
\* A text that is too long to spell out: the first len characters of the text
\* called name; blank says that it holds white space only.
Txt(name, len, blank) == [name |-> name, len |-> len, blank |-> blank]
EmptyText == Txt("", 0, FALSE)
\* null or undefined where a string is expected
NullText == Txt("null", 0, FALSE)

JsonLine(response, isDone) == [kind |-> "json", response |-> response, done |-> isDone]
MalformedLine == [kind |-> "malformed", response |-> <<>>, done |-> FALSE]
BlankLine == [kind |-> "blank", response |-> <<>>, done |-> FALSE]

\* Events sent to the renderer.
StatusEv(phase, question, requestId) ==
    [type |-> "status", phase |-> phase, question |-> question, requestId |-> requestId]
PartialEv(requestId, delta, answer, m) ==
    [type |-> "partial", requestId |-> requestId, delta |-> delta, answer |-> answer, model |-> m]
ResultEv(question, answer, m, requestId) ==
    [type |-> "result", question |-> question, answer |-> answer, model |-> m, requestId |-> requestId]
ErrorEv(msg) == [type |-> "error", msg |-> msg]

\* Return values of the handler.
Pending == [pending |-> TRUE, success |-> FALSE, error |-> ""]
Failure(msg) == [pending |-> FALSE, success |-> FALSE, error |-> msg]
Success(question, answer, m, requestId) ==
    [pending |-> FALSE, success |-> TRUE, question |-> question, answer |-> answer,
     model |-> m, requestId |-> requestId]

IdleReq ==
    [pc |-> "idle", admitted |-> FALSE, n |-> 0, buffer |-> "missing", model |-> "",
     transcription |-> NoText, candidateModels |-> <<>>, idx |-> 0, usedModel |-> "",
     answer |-> <<>>, requestId |-> 0, sent |-> <<>>, pos |-> 0, frag |-> FALSE,
     readErrs |-> 0, failedModels |-> <<>>, abortReq |-> FALSE, histAtAdm |-> <<>>,
     sttKind |-> "", sttCalls |-> 0, fileWritten |-> FALSE, resetSeen |-> FALSE,
     enabledAtAdm |-> TRUE,
     prompt |-> [systemPrefix |-> [header |-> FALSE, context |-> EmptyText],
                 historySection |-> [header |-> FALSE, blocks |-> <<>>], question |-> NoText],
     ret |-> Pending]

\* The state of the voice panel: useState<VoiceState>({ mode: 'idle' }); a
\* field that is undefined is empty here.  No listener is registered before
\* the panel is mounted.
IdlePanel ==
    [mounted |-> TRUE, mode |-> "idle", phaseMsg |-> "", question |-> NoText, answer |-> <<>>,
     model |-> "", requestId |-> 0, error |-> ""]
Unmounted == [IdlePanel EXCEPT !.mounted = FALSE]

\* What set-model and get-model return: { success, model } or { success,
\* error } (lines 764, 766), { model } (line 768); nothing was returned yet.
ModelSet(m) == [call |-> "set", success |-> TRUE, model |-> m, error |-> ""]
ModelRefused == [call |-> "set", success |-> FALSE, model |-> "", error |-> ErrInvalidModel]
ModelIs(m) == [call |-> "get", success |-> TRUE, model |-> m, error |-> ""]
NoReply == [call |-> "", success |-> FALSE, model |-> "", error |-> ""]
\* An argument whose typeof is not 'string' (null, a number).
NotAString == "(not a string)"

VARIABLES
    voiceStreamingActive,   \* let voiceStreamingActive
    voicePreferredModel,    \* let voicePreferredModel ("" is null)
    voiceHistory,           \* let voiceHistory: VoiceTurn[]
    voiceHistoryEnabled,    \* let voiceHistoryEnabled
    req,                    \* the locals of the handler invocation in each slot
    log,                    \* the events each invocation has sent so far
    submitted,              \* submissions so far
    voiceResetSent,         \* 'voice:reset' events sent so far
    succeeded,              \* turns of the requests that completed, in completion order
    undisturbed,            \* no clear / reset / disabled completion so far
    nAdmin,                 \* admin calls so far
    voiceContext,           \* let voiceContext
    contextCalls,           \* the set-context and get-context calls so far, with what they returned
    panel,                  \* const [state, setState] of the voice panel
    modelReply              \* what the last set-model or get-model call returned

vars == <<voiceStreamingActive, voicePreferredModel, voiceHistory, voiceHistoryEnabled,
          req, log, submitted, voiceResetSent, succeeded, undisturbed, nAdmin,
          voiceContext, contextCalls, panel, modelReply>>

Init ==
    /\ voiceStreamingActive = FALSE
    /\ voicePreferredModel = ""
    /\ voiceHistory = <<>>
    /\ voiceHistoryEnabled = TRUE
    /\ req = [s \in Slots |-> IdleReq]
    /\ log = [s \in Slots |-> <<>>]
    /\ submitted = 0
    /\ voiceResetSent = 0
    /\ succeeded = <<>>
    /\ undisturbed = TRUE
    /\ nAdmin = 0
    /\ voiceContext = EmptyText
    /\ contextCalls = <<>>
    /\ panel = Unmounted
    /\ modelReply = NoReply

\* ---------------------------------------------------------------- helpers
Min(a, b) == IF a < b THEN a ELSE b
Max(a, b) == IF a > b THEN a ELSE b

InFlight(s) == req[s].pc \in {"stt", "fetch", "read"}
Free(s) == req[s].pc \in {"idle", "done"}
\* A new invocation takes the lowest free slot.
FreeSlot(s) == Free(s) /\ \A t \in Slots : t < s => ~Free(t)

Includes(seq, x) == \E i \in 1..Len(seq) : seq[i] = x

\* array.slice(-k) for k > 0
SliceLast(seq, k) == SubSeq(seq, Max(1, Len(seq) - k + 1), Len(seq))

\* ------------------------------------------------- transcription response
\* What the transcription service may answer for recording n.
SttData(text, transcription, result) ==
    [text |-> text, transcription |-> transcription, result |-> result]
SttResponses(n) ==
    { SttData(Utterance(n), NoText, NoText),
      SttData(NoText, Utterance(n), NoText),
      SttData(NoText, NoText, NoText) }
\* Every combination of the three fields, each empty or with words of its own.
SttResponsesRich(n) ==
    { SttData(t, c, r) : t \in {NoText, Utterance(n)}, c \in {NoText, Utterance(n + 10)},
                         r \in {NoText, Utterance(n + 20)} }
\* The fields tried from the last to the first.
TranscriptResultFirst(data) ==
    IF data.result # NoText THEN data.result
    ELSE IF data.transcription # NoText THEN data.transcription
    ELSE IF data.text # NoText THEN data.text
    ELSE NoText
\* sttResp.data?.text || sttResp.data?.transcription || sttResp.data?.result || ''
Transcript(data) ==
    IF data.text # NoText THEN data.text
    ELSE IF data.transcription # NoText THEN data.transcription
    ELSE IF data.result # NoText THEN data.result
    ELSE NoText

\* What the transcription call may come back with: an empty transcript is a fault.
SttOutcomes(failKinds, responses, canFail) ==
    { [kind |-> k, data |-> SttData(NoText, NoText, NoText)] : k \in IF canFail THEN failKinds ELSE {} }
    \cup { [kind |-> "ok", data |-> d] : d \in { e \in responses : canFail \/ Transcript(e) # NoText } }

\* -------------------------------------------------------- candidate models
RECURSIVE PushMissing(_, _, _)
PushMissing(cands, dms, i) ==
    IF i > Len(dms) THEN cands
    ELSE PushMissing(IF Includes(cands, dms[i]) THEN cands ELSE Append(cands, dms[i]), dms, i + 1)

\* The candidates with the preferred model tested before the override.
CandidateModelsPreferredFirst(argModel, preferred) ==
    PushMissing(IF preferred # "" THEN <<preferred>>
                ELSE IF argModel # "" THEN <<argModel>>
                ELSE <<>>,
                defaultModels, 1)

\* let candidateModels ... (lines 854-862)
CandidateModels(argModel, preferred) ==
    PushMissing(IF argModel # "" THEN <<argModel>>
                ELSE IF preferred # "" THEN <<preferred>>
                ELSE <<>>,
                defaultModels, 1)

\* -------------------------------------------------------- generation stream
\* What model m may write to its response body.
StreamsOf(m) ==
    { <<JsonLine(<<Tok(m, "a")>>, FALSE), JsonLine(<<Tok(m, "b")>>, FALSE), JsonLine(<<>>, TRUE)>>,
      <<JsonLine(<<Tok(m, "a")>>, FALSE), MalformedLine, JsonLine(<<Tok(m, "b")>>, TRUE)>>,
      <<JsonLine(<<>>, TRUE)>>,
      <<JsonLine(<<Tok(m, "a")>>, FALSE)>> }
StreamsLight(m) ==
    { <<JsonLine(<<Tok(m, "a")>>, FALSE), JsonLine(<<Tok(m, "b")>>, TRUE)>>,
      <<JsonLine(<<>>, TRUE)>> }
StreamsHist(m) ==
    { <<JsonLine(<<Tok(m, "a")>>, TRUE)>> }
\* Answers of every length around the character limit, each in one line.
StreamsLong(m) ==
    { <<JsonLine(<<Tok(m, c)>>, TRUE)>> : c \in {"a", "essay", "lecture", "tome"} }

FetchOutcomes(failKinds, streams, canFail) ==
    { [kind |-> k, lines |-> <<>>] : k \in IF canFail THEN failKinds ELSE {} }
    \cup { [kind |-> "ok", lines |-> l] : l \in streams }

\* What one reader.read() may deliver: an error, the end of the body, or a chunk
\* of `whole` complete lines, after the rest of a line whose first part came
\* with the chunk before (frag), and before the first part of the next line
\* (split).  A part of a line is no JSON text.
ReadOutcomes(r, splits, canFail) ==
    LET left == Len(r.sent) - r.pos - (IF r.frag THEN 1 ELSE 0)
    IN  { o \in [kind : {"error", "done", "chunk"}, whole : 0..left, split : splits] :
            \/ o.kind = "error" /\ o.whole = 0 /\ ~o.split /\ canFail /\ r.readErrs < MaxReadErrors
            \/ o.kind = "done" /\ o.whole = 0 /\ ~o.split /\ left = 0 /\ ~r.frag
            \/ /\ o.kind = "chunk"
               /\ o.split => o.whole < left
               /\ o.whole > 0 \/ r.frag \/ o.split }

\* What the panel may submit: a missing buffer and a failing file write are faults.
SubmitInputs(buffers, models, canFail) ==
    { i \in [buffer : buffers, model : models, writeOk : BOOLEAN] :
        (i.buffer = "missing" \/ ~i.writeOk) => canFail }

\* The loop over the lines sending each delta as the answer so far.
RECURSIVE ProcessLinesDeltaAsAnswer(_, _, _, _, _)
ProcessLinesDeltaAsAnswer(lines, i, acc, requestId, m) ==
    IF i > Len(lines) THEN acc
    ELSE LET line == lines[i]
             answer == acc.answer \o line.response
         IN  IF line.kind = "json" /\ line.response # <<>>
             THEN ProcessLinesDeltaAsAnswer(lines, i + 1,
                               [answer |-> answer,
                                events |-> Append(acc.events, PartialEv(requestId, line.response, line.response, m))],
                               requestId, m)
             ELSE ProcessLinesDeltaAsAnswer(lines, i + 1, acc, requestId, m)

\* The loop over the lines of one chunk (lines 917-934): a line that parses and
\* has a non-empty response extends the answer and is sent as a partial event.
RECURSIVE ProcessLines(_, _, _, _, _)
ProcessLines(lines, i, acc, requestId, m) ==
    IF i > Len(lines) THEN acc
    ELSE LET line == lines[i]
             answer == acc.answer \o line.response
         IN  IF line.kind = "json" /\ line.response # <<>>
             THEN ProcessLines(lines, i + 1,
                               [answer |-> answer,
                                events |-> Append(acc.events, PartialEv(requestId, line.response, answer, m))],
                               requestId, m)
             ELSE ProcessLines(lines, i + 1, acc, requestId, m)

\* ------------------------------------------------------------- the prompt
\* The number of characters of a text.  A symbol of a transcript counts as one
\* character; a piece of answer text has the length of what its name stands
\* for: a letter, a long answer, or the placeholder.
ContentChars(c) ==
    CASE c = NoAnswerText -> 20
      [] c = "essay" -> 1240
      [] c = "lecture" -> 2490
      [] c = "tome" -> 2491
      [] OTHER -> 1
QuestionChars(q) == Len(q)
RECURSIVE AnswerChars(_)
AnswerChars(a) == IF a = <<>> THEN 0 ELSE ContentChars(Head(a)[2]) + AnswerChars(Tail(a))

\* `Q: ${turn.q}\nA: ${turn.a}\n\n`.length (line 872)
SnippetCharsBare(turn) == QuestionChars(turn.q) + AnswerChars(turn.a)
SnippetChars(turn) == 3 + QuestionChars(turn.q) + 4 + AnswerChars(turn.a) + 2
\* `Q: ${t.q}\nA: ${t.a}`.length (line 880)
BlockChars(turn) == 3 + QuestionChars(turn.q) + 4 + AnswerChars(turn.a)

\* The scan going on past a turn that does not fit.
RECURSIVE SelectTurnsSkips(_, _, _, _, _)
SelectTurnsSkips(history, i, selected, totalChars, limit) ==
    IF i < 1 THEN selected
    ELSE LET nextTotal == totalChars + SnippetChars(history[i])
         IN  IF nextTotal > limit THEN SelectTurnsSkips(history, i - 1, selected, totalChars, limit)
             ELSE SelectTurnsSkips(history, i - 1, Append(selected, history[i]), nextTotal, limit)

\* for (let i = voiceHistory.length - 1; i >= 0; i--) ... (lines 870-877):
\* the turns selected, newest first.
RECURSIVE SelectTurns(_, _, _, _, _)
SelectTurns(history, i, selected, totalChars, limit) ==
    IF i < 1 THEN selected
    ELSE LET nextTotal == totalChars + SnippetChars(history[i])
         IN  IF nextTotal > limit THEN selected
             ELSE SelectTurns(history, i - 1, Append(selected, history[i]), nextTotal, limit)

\* selected.reverse()
Reverse(seq) == [i \in 1..Len(seq) |-> seq[Len(seq) + 1 - i]]

\* A history section: the header and the blocks `Q: ...\nA: ...` it joins, or
\* the empty string.
EmptySection == [header |-> FALSE, blocks |-> <<>>]
Section(selected) == IF selected # <<>> THEN [header |-> TRUE, blocks |-> selected] ELSE EmptySection

\* The history section with a scan that starts one turn too early.
HistorySectionFromSecondNewest(history, enabled, limit) ==
    IF enabled /\ history # <<>>
    THEN Section(Reverse(SelectTurns(history, Len(history) - 1, <<>>, 0, limit)))
    ELSE EmptySection

\* let historySection ... (lines 866-882)
HistorySection(history, enabled, limit) ==
    IF enabled /\ history # <<>>
    THEN Section(Reverse(SelectTurns(history, Len(history), <<>>, 0, limit)))
    ELSE EmptySection

\* historySection.length: header, blocks joined by '\n\n', and '\n\n'.
RECURSIVE BlocksChars(_)
BlocksChars(blocks) == IF blocks = <<>> THEN 0 ELSE BlockChars(Head(blocks)) + BlocksChars(Tail(blocks))
SectionChars(section) ==
    IF section.header
    THEN HeaderChars + BlocksChars(section.blocks) + 2 * (Len(section.blocks) - 1) + 2
    ELSE 0

\* String.prototype.slice(0, to) and trim() on such a text; a text that is not
\* blank has no white space at its ends.
Slice(t, to) == IF t.len = 0 THEN EmptyText ELSE Txt(t.name, Min(t.len, to), t.blank)
TrimText(t) == IF t.blank THEN EmptyText ELSE t

\* const systemPrefix (line 864): nothing for an empty context, else the
\* heading and the trimmed context.
SystemPrefix(context) ==
    IF context.len = 0 THEN [header |-> FALSE, context |-> EmptyText]
    ELSE [header |-> TRUE, context |-> TrimText(context)]

\* const promptBase (line 883)
PromptBase(systemPrefix, historySection, transcription) ==
    [systemPrefix |-> systemPrefix, historySection |-> historySection, question |-> transcription]

\* -------------------------------------------------------------- the panel
\* api.onStatus (part_001 lines 426-429)
OnStatus(prev, e) ==
    [prev EXCEPT !.phaseMsg = e.phase, !.mode = "processing",
                 !.question = IF e.question # NoText THEN e.question ELSE prev.question,
                 !.requestId = IF e.requestId # 0 THEN e.requestId ELSE prev.requestId]
\* api.onResult (lines 430-434)
OnResult(prev, e) ==
    [IdlePanel EXCEPT !.question = e.question, !.answer = e.answer, !.model = e.model,
                      !.requestId = e.requestId]
\* api.onPartial (lines 435-442)
OnPartial(prev, e) ==
    IF prev.requestId # 0 /\ e.requestId # 0 /\ e.requestId # prev.requestId
    THEN [IdlePanel EXCEPT !.mode = "processing", !.question = prev.question, !.answer = e.answer,
                           !.phaseMsg = "generating", !.model = e.model, !.requestId = e.requestId]
    ELSE [prev EXCEPT !.answer = e.answer, !.model = e.model, !.requestId = e.requestId,
                      !.mode = "processing"]
\* api.onError (lines 443-445)
OnError(prev, e) == [IdlePanel EXCEPT !.error = e.msg]
\* electronAPI.onReset (lines 598-609)
OnReset(prev) == IF prev.mounted THEN IdlePanel ELSE prev

\* The listener of one event, and the events of a step delivered in order.
On(prev, e) ==
    IF e.type = "status" THEN OnStatus(prev, e)
    ELSE IF e.type = "partial" THEN OnPartial(prev, e)
    ELSE IF e.type = "result" THEN OnResult(prev, e)
    ELSE OnError(prev, e)
RECURSIVE Deliver(_, _)
Deliver(prev, events) ==
    IF ~prev.mounted \/ events = <<>> THEN prev
    ELSE Deliver(On(prev, Head(events)), Tail(events))
\* webContents.send: the panel has handled the events that invocation s sent
\* in this step, those after the first base events of its log.
PanelFollows(s, base) == panel' = Deliver(panel, SubSeq(log'[s], base + 1, Len(log'[s])))

\* ------------------------------------------------------------ the handler
SettingsVars == <<voiceContext, contextCalls, modelReply>>
OtherVars == <<voicePreferredModel, voiceHistoryEnabled, voiceResetSent, nAdmin, SettingsVars>>

\* What is left of an invocation that returned ret: its locals are gone; the
\* candidates it had, those that failed and how its transcription went are
\* kept for the record.
Returned(r, ret) ==
    [IdleReq EXCEPT !.pc = "done", !.admitted = r.admitted, !.n = r.n, !.abortReq = r.abortReq,
                    !.candidateModels = r.candidateModels, !.failedModels = r.failedModels,
                    !.sttKind = r.sttKind, !.sttCalls = r.sttCalls,
                    !.fileWritten = r.fileWritten, !.resetSeen = r.resetSeen,
                    !.enabledAtAdm = r.enabledAtAdm, !.ret = ret]

\* The catch of the handler leaving voiceStreamingActive as it is.
TopLevelCatchKeepsFlag(s, r, lg, msg) ==
    /\ log' = [log EXCEPT ![s] = Append(lg, ErrorEv(msg))]
    /\ voiceStreamingActive' = voiceStreamingActive
    /\ req' = [req EXCEPT ![s] = Returned(r, Failure(msg))]

\* catch (error) of the handler (lines 961-967), entered with the locals r and
\* the events lg sent so far.
TopLevelCatch(s, r, lg, msg) ==
    /\ log' = [log EXCEPT ![s] = Append(lg, ErrorEv(msg))]
    /\ voiceStreamingActive' = FALSE
    /\ req' = [req EXCEPT ![s] = Returned(r, Failure(msg))]

\* The admission check (lines 791-794).
Admitted == ~voiceStreamingActive

\* The handler going on to the transcription although the audio file could
\* not be written.
SubmitIgnoresWriteFailure(s, buffer, m, writeOk) ==
    /\ FreeSlot(s)
    /\ submitted' = submitted + 1
    /\ LET r0 == [IdleReq EXCEPT !.n = submitted + 1, !.buffer = buffer, !.model = m,
                                 !.histAtAdm = voiceHistory, !.enabledAtAdm = voiceHistoryEnabled]
           r1 == [r0 EXCEPT !.admitted = TRUE]
       IN  IF ~Admitted
           THEN /\ req' = [req EXCEPT ![s] = Returned(r0, Failure(ErrBusy))]
                /\ log' = [log EXCEPT ![s] = <<>>]
                /\ UNCHANGED voiceStreamingActive
           ELSE IF buffer = "missing"
           THEN TopLevelCatch(s, r1, <<>>, ErrNoBuffer)
           ELSE /\ req' = [req EXCEPT ![s] = [r1 EXCEPT !.pc = "stt", !.fileWritten = writeOk]]
                /\ log' = [log EXCEPT ![s] = <<StatusEv("stt", NoText, 0)>>]
                /\ UNCHANGED voiceStreamingActive
    /\ UNCHANGED <<voiceHistory, succeeded, undisturbed, OtherVars>>
    /\ PanelFollows(s, 0)

\* voice:save-and-transcribe up to its first await: admission, the buffer
\* check, the audio file, the first status event.
Submit(s, buffer, m, writeOk) ==
    /\ FreeSlot(s)
    /\ submitted' = submitted + 1
    /\ LET r0 == [IdleReq EXCEPT !.n = submitted + 1, !.buffer = buffer, !.model = m,
                                 !.histAtAdm = voiceHistory, !.enabledAtAdm = voiceHistoryEnabled]
           r1 == [r0 EXCEPT !.admitted = TRUE]
       IN  IF ~Admitted
           THEN /\ req' = [req EXCEPT ![s] = Returned(r0, Failure(ErrBusy))]
                /\ log' = [log EXCEPT ![s] = <<>>]
                /\ UNCHANGED voiceStreamingActive
           ELSE IF buffer = "missing"
           THEN TopLevelCatch(s, r1, <<>>, ErrNoBuffer)
           ELSE IF ~writeOk
           THEN TopLevelCatch(s, r1, <<>>, ErrWrite)
           ELSE /\ req' = [req EXCEPT ![s] = [r1 EXCEPT !.pc = "stt", !.fileWritten = TRUE]]
                /\ log' = [log EXCEPT ![s] = <<StatusEv("stt", NoText, 0)>>]
                /\ UNCHANGED voiceStreamingActive
    /\ UNCHANGED <<voiceHistory, succeeded, undisturbed, OtherVars>>
    /\ PanelFollows(s, 0)

\* The locals when the loop over the candidates is entered (lines 849-890).
EnterLoop(r, transcription) ==
    [r EXCEPT !.pc = "fetch", !.transcription = transcription,
              !.prompt = PromptBase(SystemPrefix(voiceContext),
                                    HistorySection(voiceHistory, voiceHistoryEnabled,
                                                   VOICE_HISTORY_CHAR_LIMIT), transcription),
              !.candidateModels = CandidateModels(r.model, voicePreferredModel),
              !.idx = 1, !.usedModel = "", !.answer = <<>>, !.requestId = r.n]

\* How the transcription step went: o.kind, or "empty" for an answer without
\* text; the endpoint has been called unless the form could not be built.
SttKind(o) == IF o.kind = "ok" /\ Transcript(o.data) = NoText THEN "empty" ELSE o.kind
AfterStt(r, o) ==
    [r EXCEPT !.sttKind = SttKind(o),
              !.sttCalls = IF o.kind \in {"error", "ok"} THEN @ + 1 ELSE @]

\* The transcription step without if (!transcription) throw.
SttReturnsNoEmptyCheck(s, o) ==
    /\ req[s].pc = "stt"
    /\ LET r == AfterStt(req[s], o)
           transcription == Transcript(o.data)
       IN  IF o.kind = "noFormData" THEN TopLevelCatch(s, r, log[s], ErrFormData)
           ELSE IF o.kind = "formErr" THEN TopLevelCatch(s, r, log[s], ErrForm)
           ELSE IF o.kind = "error" THEN TopLevelCatch(s, r, log[s], ErrStt)
           ELSE /\ req' = [req EXCEPT ![s] = EnterLoop(r, transcription)]
                /\ log' = [log EXCEPT ![s] = log[s] \o <<StatusEv("llm", transcription, 0),
                                                         StatusEv("llm", transcription, r.n)>>]
                /\ voiceStreamingActive' = TRUE
    /\ UNCHANGED <<voiceHistory, succeeded, undisturbed, submitted, OtherVars>>
    /\ PanelFollows(s, Len(log[s]))

\* The transcription step announcing the requestId before the question.
SttReturnsIdFirst(s, o) ==
    /\ req[s].pc = "stt"
    /\ LET r == AfterStt(req[s], o)
           transcription == Transcript(o.data)
       IN  IF o.kind = "noFormData" THEN TopLevelCatch(s, r, log[s], ErrFormData)
           ELSE IF o.kind = "formErr" THEN TopLevelCatch(s, r, log[s], ErrForm)
           ELSE IF o.kind = "error" THEN TopLevelCatch(s, r, log[s], ErrStt)
           ELSE IF transcription = NoText THEN TopLevelCatch(s, r, log[s], ErrEmptyStt)
           ELSE /\ req' = [req EXCEPT ![s] = EnterLoop(r, transcription)]
                /\ log' = [log EXCEPT ![s] = log[s] \o <<StatusEv("llm", transcription, r.n),
                                                         StatusEv("llm", transcription, 0)>>]
                /\ voiceStreamingActive' = TRUE
    /\ UNCHANGED <<voiceHistory, succeeded, undisturbed, submitted, OtherVars>>
    /\ PanelFollows(s, Len(log[s]))

\* From the transcription call's return to the first fetch (lines 836-903).
SttReturns(s, o) ==
    /\ req[s].pc = "stt"
    /\ LET r == AfterStt(req[s], o)
           transcription == Transcript(o.data)
       IN  IF o.kind = "noFormData" THEN TopLevelCatch(s, r, log[s], ErrFormData)
           ELSE IF o.kind = "formErr" THEN TopLevelCatch(s, r, log[s], ErrForm)
           ELSE IF o.kind = "error" THEN TopLevelCatch(s, r, log[s], ErrStt)
           ELSE IF transcription = NoText THEN TopLevelCatch(s, r, log[s], ErrEmptyStt)
           ELSE /\ req' = [req EXCEPT ![s] = EnterLoop(r, transcription)]
                /\ log' = [log EXCEPT ![s] = log[s] \o <<StatusEv("llm", transcription, 0),
                                                         StatusEv("llm", transcription, r.n)>>]
                /\ voiceStreamingActive' = TRUE
    /\ UNCHANGED <<voiceHistory, succeeded, undisturbed, submitted, OtherVars>>
    /\ PanelFollows(s, Len(log[s]))

\* The catch of one candidate without its answer = ''.
ModelCatchKeepsAnswer(r) ==
    [r EXCEPT !.usedModel = "", !.sent = <<>>, !.pos = 0, !.frag = FALSE]

\* catch (err) of one candidate (lines 937-943): the locals it leaves.
ModelCatch(r) ==
    [r EXCEPT !.usedModel = "", !.answer = <<>>, !.sent = <<>>, !.pos = 0, !.frag = FALSE]

\* The end of the loop throwing the last candidate's error instead of its own.
ModelFailedRethrows(s, r) ==
    LET caught == [ModelCatch(r) EXCEPT !.failedModels = Append(@, r.candidateModels[r.idx])]
    IN  IF r.idx < Len(r.candidateModels)
        THEN /\ req' = [req EXCEPT ![s] = [caught EXCEPT !.idx = r.idx + 1, !.pc = "fetch"]]
             /\ UNCHANGED <<log, voiceStreamingActive>>
        ELSE TopLevelCatch(s, caught, log[s], "HTTP 500")

\* A candidate failed: the next one is fetched, or the loop ends without a
\* model and the handler throws (lines 937-949).
ModelFailed(s, r) ==
    LET caught == [ModelCatch(r) EXCEPT !.failedModels = Append(@, r.candidateModels[r.idx])]
    IN  IF r.idx < Len(r.candidateModels)
        THEN /\ req' = [req EXCEPT ![s] = [caught EXCEPT !.idx = r.idx + 1, !.pc = "fetch"]]
             /\ UNCHANGED <<log, voiceStreamingActive>>
        ELSE TopLevelCatch(s, caught, log[s], ErrAllModels)

\* The fetch of candidate idx returns (lines 897-908).
FetchReturns(s, o) ==
    /\ req[s].pc = "fetch"
    /\ LET r == req[s]
       IN  IF o.kind = "ok"
           THEN /\ req' = [req EXCEPT ![s] = [r EXCEPT !.pc = "read",
                                                       !.usedModel = r.candidateModels[r.idx],
                                                       !.sent = o.lines, !.pos = 0, !.frag = FALSE]]
                /\ UNCHANGED <<log, voiceStreamingActive>>
           ELSE ModelFailed(s, r)
    /\ UNCHANGED <<voiceHistory, succeeded, undisturbed, submitted, OtherVars>>
    /\ PanelFollows(s, Len(log[s]))

\* A turn of the history (its ts is written once and never read by the pipeline).
Turn(q, a) == [q |-> q, a |-> a]

\* The push without the trim.
PushTurnNoTrim(history, turn) == Append(history, turn)

\* The push with a trim that keeps the oldest 15 turns.
PushTurnKeepsOldest(history, turn) ==
    LET pushed == Append(history, turn)
    IN  IF Len(pushed) > VOICE_HISTORY_MAX_TURNS
        THEN SubSeq(pushed, 1, VOICE_HISTORY_MAX_TURNS)
        ELSE pushed

\* voiceHistory.push(turn) and the trim to the last 15 (lines 953-956).
PushTurn(history, turn) ==
    LET pushed == Append(history, turn)
    IN  IF Len(pushed) > VOICE_HISTORY_MAX_TURNS
        THEN SliceLast(pushed, VOICE_HISTORY_MAX_TURNS)
        ELSE pushed

\* The answer without the placeholder substitution.
FinalAnswerAsIs(answer) == answer

\* if (!answer) answer = 'No answer generated.' (line 950)
FinalAnswer(answer) == IF answer = <<>> THEN NoAnswer ELSE answer

\* The completion sending its result event twice.
CompleteTwice(s, r) ==
    LET answer == FinalAnswer(r.answer)
        turn == Turn(r.transcription, answer)
        ev == ResultEv(r.transcription, answer, r.usedModel, r.requestId)
    IN  /\ voiceStreamingActive' = FALSE
        /\ voiceHistory' = IF voiceHistoryEnabled THEN PushTurn(voiceHistory, turn) ELSE voiceHistory
        /\ log' = [log EXCEPT ![s] = @ \o <<ev, ev>>]
        /\ req' = [req EXCEPT ![s] = Returned(r, Success(r.transcription, answer, r.usedModel, r.requestId))]
        /\ undisturbed' = (undisturbed /\ voiceHistoryEnabled)
        /\ succeeded' = IF undisturbed' THEN Append(succeeded, turn) ELSE <<>>

\* The completion returning the answer as it was before the placeholder.
CompleteReturnsRawAnswer(s, r) ==
    LET answer == FinalAnswer(r.answer)
        turn == Turn(r.transcription, answer)
    IN  /\ voiceStreamingActive' = FALSE
        /\ voiceHistory' = IF voiceHistoryEnabled THEN PushTurn(voiceHistory, turn) ELSE voiceHistory
        /\ log' = [log EXCEPT ![s] = Append(@, ResultEv(r.transcription, answer, r.usedModel, r.requestId))]
        /\ req' = [req EXCEPT ![s] = Returned(r, Success(r.transcription, r.answer, r.usedModel, r.requestId))]
        /\ undisturbed' = (undisturbed /\ voiceHistoryEnabled)
        /\ succeeded' = IF undisturbed' THEN Append(succeeded, turn) ELSE <<>>

\* The completion deciding on the history setting the request was admitted
\* under.
CompleteByAdmissionSetting(s, r) ==
    LET answer == FinalAnswer(r.answer)
        turn == Turn(r.transcription, answer)
    IN  /\ voiceStreamingActive' = FALSE
        /\ voiceHistory' = IF r.enabledAtAdm THEN PushTurn(voiceHistory, turn) ELSE voiceHistory
        /\ log' = [log EXCEPT ![s] = Append(@, ResultEv(r.transcription, answer, r.usedModel, r.requestId))]
        /\ req' = [req EXCEPT ![s] = Returned(r, Success(r.transcription, answer, r.usedModel, r.requestId))]
        /\ undisturbed' = (undisturbed /\ voiceHistoryEnabled)
        /\ succeeded' = IF undisturbed' THEN Append(succeeded, turn) ELSE <<>>

\* The completion leaving voiceStreamingActive as it is.
CompleteKeepsFlag(s, r) ==
    LET answer == FinalAnswer(r.answer)
        turn == Turn(r.transcription, answer)
    IN  /\ voiceStreamingActive' = voiceStreamingActive
        /\ voiceHistory' = IF voiceHistoryEnabled THEN PushTurn(voiceHistory, turn) ELSE voiceHistory
        /\ log' = [log EXCEPT ![s] = Append(@, ResultEv(r.transcription, answer, r.usedModel, r.requestId))]
        /\ req' = [req EXCEPT ![s] = Returned(r, Success(r.transcription, answer, r.usedModel, r.requestId))]
        /\ undisturbed' = (undisturbed /\ voiceHistoryEnabled)
        /\ succeeded' = IF undisturbed' THEN Append(succeeded, turn) ELSE <<>>

\* After the loop with a model (lines 945-960): history, result event, return.
Complete(s, r) ==
    LET answer == FinalAnswer(r.answer)
        turn == Turn(r.transcription, answer)
    IN  /\ voiceStreamingActive' = FALSE
        /\ voiceHistory' = IF voiceHistoryEnabled THEN PushTurn(voiceHistory, turn) ELSE voiceHistory
        /\ log' = [log EXCEPT ![s] = Append(@, ResultEv(r.transcription, answer, r.usedModel, r.requestId))]
        /\ req' = [req EXCEPT ![s] = Returned(r, Success(r.transcription, answer, r.usedModel, r.requestId))]
        /\ undisturbed' = (undisturbed /\ voiceHistoryEnabled)
        /\ succeeded' = IF undisturbed' THEN Append(succeeded, turn) ELSE <<>>

\* The lines a chunk brings whole: after the rest of a split line, if any.
ChunkLines(r, o) ==
    LET first == r.pos + (IF r.frag THEN 1 ELSE 0) + 1
    IN  SubSeq(r.sent, first, first + o.whole - 1)

\* One reader.read() returns (lines 911-936).
ReadReturns(s, o) ==
    /\ req[s].pc = "read"
    /\ LET r == req[s]
       IN  IF o.kind = "error"
           THEN /\ ModelFailed(s, [r EXCEPT !.readErrs = @ + 1])
                /\ UNCHANGED <<voiceHistory, succeeded, undisturbed>>
           ELSE IF o.kind = "done"
           THEN Complete(s, r)
           ELSE LET acc == ProcessLines(ChunkLines(r, o), 1, [answer |-> r.answer, events |-> <<>>],
                                        r.requestId, r.candidateModels[r.idx])
                IN  /\ req' = [req EXCEPT ![s] = [r EXCEPT !.answer = acc.answer,
                                                           !.pos = r.pos + (IF r.frag THEN 1 ELSE 0) + o.whole,
                                                           !.frag = o.split]]
                    /\ log' = [log EXCEPT ![s] = @ \o acc.events]
                    /\ UNCHANGED <<voiceStreamingActive, voiceHistory, succeeded, undisturbed>>
    /\ UNCHANGED <<submitted, OtherVars>>
    /\ PanelFollows(s, Len(log[s]))

\* ------------------------------------------------------ the other handlers
Admin == nAdmin < MaxAdmin /\ nAdmin' = nAdmin + 1

\* clear-history doing nothing while history is disabled.
ClearHistoryIfEnabled ==
    /\ Admin
    /\ UNCHANGED SettingsVars
    /\ UNCHANGED panel
    /\ voiceHistory' = IF voiceHistoryEnabled THEN <<>> ELSE voiceHistory
    /\ undisturbed' = FALSE
    /\ succeeded' = <<>>
    /\ UNCHANGED <<voiceStreamingActive, voicePreferredModel, voiceHistoryEnabled, req, log,
                   submitted, voiceResetSent>>

\* voice:clear-history (line 770)
ClearHistory ==
    /\ Admin
    /\ UNCHANGED SettingsVars
    /\ UNCHANGED panel
    /\ voiceHistory' = <<>>
    /\ undisturbed' = FALSE
    /\ succeeded' = <<>>
    /\ UNCHANGED <<voiceStreamingActive, voicePreferredModel, voiceHistoryEnabled, req, log,
                   submitted, voiceResetSent>>

\* voice:set-history-enabled (lines 771-775)
SetHistoryEnabled(enabled) ==
    /\ Admin
    /\ UNCHANGED SettingsVars
    /\ UNCHANGED panel
    /\ voiceHistoryEnabled' = enabled
    /\ UNCHANGED <<voiceStreamingActive, voicePreferredModel, voiceHistory, req, log,
                   submitted, voiceResetSent, succeeded, undisturbed>>

\* model.trim() on the names the panel may send
Trim(m) == IF m = " qwen2 " THEN "qwen2" ELSE IF m = "  " THEN "" ELSE m

\* set-model storing the trimmed value of any string.
SetModelAnyString(m) ==
    /\ Admin
    /\ UNCHANGED <<voiceContext, contextCalls, panel>>
    /\ IF m # NotAString
       THEN voicePreferredModel' = Trim(m) /\ modelReply' = ModelSet(Trim(m))
       ELSE UNCHANGED voicePreferredModel /\ modelReply' = ModelRefused
    /\ UNCHANGED <<voiceStreamingActive, voiceHistoryEnabled, voiceHistory, req, log,
                   submitted, voiceResetSent, succeeded, undisturbed>>

\* voice:set-model (lines 760-767)
SetModel(m) ==
    /\ Admin
    /\ UNCHANGED <<voiceContext, contextCalls, panel>>
    /\ IF m # NotAString /\ Trim(m) # ""
       THEN voicePreferredModel' = Trim(m) /\ modelReply' = ModelSet(Trim(m))
       ELSE UNCHANGED voicePreferredModel /\ modelReply' = ModelRefused
    /\ UNCHANGED <<voiceStreamingActive, voiceHistoryEnabled, voiceHistory, req, log,
                   submitted, voiceResetSent, succeeded, undisturbed>>

\* voice:get-model (line 768)
GetModel ==
    /\ modelReply' = ModelIs(voicePreferredModel)
    /\ UNCHANGED <<voiceStreamingActive, voicePreferredModel, voiceHistory, voiceHistoryEnabled,
                   req, log, submitted, voiceResetSent, succeeded, undisturbed, nAdmin,
                   voiceContext, contextCalls, panel>>

\* resetAll without voiceStreamingActive = false.
ResetAllKeepsFlag ==
    /\ Admin
    /\ UNCHANGED SettingsVars
    /\ panel' = OnReset(panel)
    /\ voiceHistory' = <<>>
    /\ voiceResetSent' = voiceResetSent + 1
    /\ undisturbed' = FALSE
    /\ succeeded' = <<>>
    /\ UNCHANGED <<voiceStreamingActive, voicePreferredModel, voiceHistoryEnabled, log, submitted>>
    /\ req' = [s \in Slots |-> IF InFlight(s) THEN [req[s] EXCEPT !.resetSeen = TRUE] ELSE req[s]]

\* resetAll putting the voice settings back to their initial values as well.
ResetAllClearsSettings ==
    /\ Admin
    /\ voiceContext' = EmptyText
    /\ UNCHANGED <<contextCalls, modelReply>>
    /\ panel' = OnReset(panel)
    /\ voiceHistory' = <<>>
    /\ voiceStreamingActive' = FALSE
    /\ voiceResetSent' = voiceResetSent + 1
    /\ undisturbed' = FALSE
    /\ succeeded' = <<>>
    /\ voicePreferredModel' = ""
    /\ voiceHistoryEnabled' = TRUE
    /\ UNCHANGED <<log, submitted>>
    /\ req' = [s \in Slots |-> IF InFlight(s) THEN [req[s] EXCEPT !.resetSeen = TRUE] ELSE req[s]]

\* resetAll (lines 1076-1098): the history and the flag are cleared and
\* 'voice:reset' is sent; no handler invocation is touched (resetSeen records
\* that it ran while the invocation was in flight).
ResetAll ==
    /\ Admin
    /\ UNCHANGED SettingsVars
    /\ panel' = OnReset(panel)
    /\ voiceHistory' = <<>>
    /\ voiceStreamingActive' = FALSE
    /\ voiceResetSent' = voiceResetSent + 1
    /\ undisturbed' = FALSE
    /\ succeeded' = <<>>
    /\ UNCHANGED <<voicePreferredModel, voiceHistoryEnabled, log, submitted>>
    /\ req' = [s \in Slots |-> IF InFlight(s) THEN [req[s] EXCEPT !.resetSeen = TRUE] ELSE req[s]]

\* The panel's abort button (part_001 lines 397-403) while request s is being
\* processed: it calls electronAPI.voice.abortProcessing?.() and sets the
\* panel idle.  The main process registers no handler that reaches the
\* handler's AbortController (a const of one loop iteration, never aborted)
\* or voiceStreamingActive, so the request's locals and the flag stay as
\* they are; abortReq records that the abort was asked for.
AbortProcessing(s) ==
    /\ Admin
    /\ UNCHANGED SettingsVars
    /\ panel' = IF panel.mounted /\ panel.mode = "processing" THEN IdlePanel ELSE panel
    /\ InFlight(s)
    /\ ~req[s].abortReq
    /\ req' = [req EXCEPT ![s].abortReq = TRUE]
    /\ UNCHANGED <<voiceStreamingActive, voicePreferredModel, voiceHistory, voiceHistoryEnabled,
                   log, submitted, voiceResetSent, succeeded, undisturbed>>

\* set-context storing its argument whole.
SetContextNoSlice(ctx) ==
    /\ Len(contextCalls) < MaxContextCalls
    /\ UNCHANGED panel
    /\ voiceContext' = (IF ctx = NullText \/ ctx.len = 0 THEN EmptyText ELSE ctx)
    /\ contextCalls' = Append(contextCalls, [op |-> "set", arg |-> ctx, ret |-> EmptyText])
    /\ UNCHANGED <<voiceStreamingActive, voicePreferredModel, voiceHistory, voiceHistoryEnabled,
                   req, log, submitted, voiceResetSent, succeeded, undisturbed, nAdmin, modelReply>>

\* voice:set-context (lines 754-758)
SetContext(ctx) ==
    /\ Len(contextCalls) < MaxContextCalls
    /\ UNCHANGED panel
    /\ voiceContext' = Slice(IF ctx = NullText \/ ctx.len = 0 THEN EmptyText ELSE ctx, ContextLimit)
    /\ contextCalls' = Append(contextCalls, [op |-> "set", arg |-> ctx, ret |-> EmptyText])
    /\ UNCHANGED <<voiceStreamingActive, voicePreferredModel, voiceHistory, voiceHistoryEnabled,
                   req, log, submitted, voiceResetSent, succeeded, undisturbed, nAdmin, modelReply>>

\* voice:get-context (line 759)
GetContext ==
    /\ Len(contextCalls) < MaxContextCalls
    /\ UNCHANGED panel
    /\ contextCalls' = Append(contextCalls, [op |-> "get", arg |-> NullText, ret |-> voiceContext])
    /\ UNCHANGED <<voiceStreamingActive, voicePreferredModel, voiceHistory, voiceHistoryEnabled,
                   req, log, submitted, voiceResetSent, succeeded, undisturbed, nAdmin,
                   voiceContext, modelReply>>

\* The voice panel is mounted: its listeners are registered (part_001 lines
\* 424-452) on the state { mode: 'idle' } (line 29).
MountPanel ==
    /\ panel = Unmounted
    /\ panel' = IdlePanel
    /\ UNCHANGED <<voiceStreamingActive, voicePreferredModel, voiceHistory, voiceHistoryEnabled,
                   req, log, submitted, voiceResetSent, succeeded, undisturbed, nAdmin,
                   voiceContext, contextCalls, modelReply>>

\* ------------------------------------------------------- the specifications
ArgModels == {"", "llama3"}
ModelInputs == {NotAString, "", "  ", " qwen2 ", "mistral:latest"}

\* The candidate the loop of request s is at.
Attempted(s) == req[s].candidateModels[req[s].idx]

Buffers == {"missing", "empty", "audio"}
SttFailKinds == {"noFormData", "formErr", "error"}
FetchFailKinds == {"exception", "http"}
Quiet == \A t \in Slots : ~InFlight(t)
NearlyFull == Len(voiceHistory) >= VOICE_HISTORY_MAX_TURNS - 1

\* Overlapping requests, a plain environment: no model override, two shapes of
\* stream, every line in one piece, no stream that breaks while it is read.
Next ==
    \/ \E s \in Slots : \E i \in SubmitInputs({"missing", "audio"}, {""}, TRUE) :
          submitted < MaxSubmit /\ Submit(s, i.buffer, i.model, i.writeOk)
    \/ \E s \in Slots : \E o \in SttOutcomes(SttFailKinds, SttResponses(req[s].n), TRUE) : SttReturns(s, o)
    \/ \E s \in Slots : req[s].pc = "fetch"
          /\ \E o \in FetchOutcomes({"http"}, StreamsLight(Attempted(s)), TRUE) : FetchReturns(s, o)
    \/ \E s \in Slots : \E o \in ReadOutcomes(req[s], {FALSE}, FALSE) : ReadReturns(s, o)
    \/ ClearHistory
    \/ \E e \in BOOLEAN : SetHistoryEnabled(e)
    \/ ResetAll
    \/ \E s \in Slots : AbortProcessing(s)

Spec == Init /\ [][Next]_vars

\* The same environment in which no call is left pending for ever: the
\* transcription call of an invocation returns or fails, so does each of its
\* generation calls, and each read of an opened stream brings a chunk or the
\* end of the stream.
Progress(s) ==
    \/ \E o \in SttOutcomes(SttFailKinds, SttResponses(req[s].n), TRUE) : SttReturns(s, o)
    \/ req[s].pc = "fetch"
          /\ \E o \in FetchOutcomes({"http"}, StreamsLight(Attempted(s)), TRUE) : FetchReturns(s, o)
    \/ \E o \in ReadOutcomes(req[s], {FALSE}, FALSE) : ReadReturns(s, o)

SpecLive == Init /\ [][Next]_vars /\ \A s \in Slots : WF_vars(Progress(s))

\* A single request, a rich environment: model overrides, every kind of
\* failure at every step, every shape of stream cut into chunks at any place.
NextStream ==
    \/ \E s \in Slots : \E i \in SubmitInputs(Buffers, ArgModels, TRUE) :
          submitted < MaxStreamSubmit /\ Submit(s, i.buffer, i.model, i.writeOk)
    \/ \E s \in Slots : \E o \in SttOutcomes(SttFailKinds, SttResponses(req[s].n), TRUE) : SttReturns(s, o)
    \/ \E s \in Slots : req[s].pc = "fetch"
          /\ \E o \in FetchOutcomes(FetchFailKinds, StreamsOf(Attempted(s)), TRUE) : FetchReturns(s, o)
    \/ \E s \in Slots : \E o \in ReadOutcomes(req[s], BOOLEAN, TRUE) : ReadReturns(s, o)
    \/ ClearHistory
    \/ \E e \in BOOLEAN : SetHistoryEnabled(e)
    \/ \E m \in ModelInputs : SetModel(m)
    \/ ResetAll

SpecStream == Init /\ [][NextStream]_vars

\* Long runs: every recording is audio, no model override, the model answers
\* with one line; the environment is calm (no overlap, no failure, no admin
\* call) until the history is one turn short of full.
NextHist ==
    \/ \E s \in Slots : \E i \in SubmitInputs({"audio"}, {""}, NearlyFull) :
          submitted < MaxHistSubmit /\ (Quiet \/ NearlyFull) /\ Submit(s, i.buffer, i.model, i.writeOk)
    \/ \E s \in Slots : \E o \in SttOutcomes({"error"}, SttResponses(req[s].n), NearlyFull) : SttReturns(s, o)
    \/ \E s \in Slots : req[s].pc = "fetch"
          /\ \E o \in FetchOutcomes({"http"}, StreamsHist(Attempted(s)), NearlyFull) : FetchReturns(s, o)
    \/ \E s \in Slots : \E o \in ReadOutcomes(req[s], {FALSE}, NearlyFull) : ReadReturns(s, o)
    \/ NearlyFull /\ ClearHistory
    \/ \E e \in BOOLEAN : NearlyFull /\ SetHistoryEnabled(e)
    \/ NearlyFull /\ ResetAll

SpecHist == Init /\ [][NextHist]_vars

\* Prompts: one request at a time, no failure, answers short and long, the
\* history cleared and switched off and on.
NextPrompt ==
    \/ \E s \in Slots : \E i \in SubmitInputs({"audio"}, {""}, FALSE) :
          submitted < MaxPromptSubmit /\ Quiet /\ Submit(s, i.buffer, i.model, i.writeOk)
    \/ \E s \in Slots : \E o \in SttOutcomes({}, SttResponses(req[s].n), FALSE) : SttReturns(s, o)
    \/ \E s \in Slots : req[s].pc = "fetch"
          /\ \E o \in FetchOutcomes({}, StreamsLong(Attempted(s)), FALSE) : FetchReturns(s, o)
    \/ \E s \in Slots : \E o \in ReadOutcomes(req[s], {FALSE}, FALSE) : ReadReturns(s, o)
    \/ ClearHistory
    \/ \E e \in BOOLEAN : SetHistoryEnabled(e)

SpecPrompt == Init /\ [][NextPrompt]_vars

\* Inputs: one request at a time whose transcription answers with any
\* combination of fields, and the voice context, the preferred model and the
\* history setting set, read and reset at any moment.
ContextInputs ==
    { NullText, EmptyText, Txt("notes", 10, FALSE), Txt("spaces", 3, TRUE),
      Txt("cv", 4000, FALSE), Txt("cv", 4001, FALSE), Txt("book", 5000, FALSE) }
NextInput ==
    \/ \E s \in Slots : \E i \in SubmitInputs({"audio"}, {""}, FALSE) :
          submitted < MaxInputSubmit /\ Quiet /\ Submit(s, i.buffer, i.model, i.writeOk)
    \/ \E s \in Slots : \E o \in SttOutcomes({"error"}, SttResponsesRich(req[s].n), TRUE) : SttReturns(s, o)
    \/ \E s \in Slots : req[s].pc = "fetch"
          /\ \E o \in FetchOutcomes({}, StreamsHist(Attempted(s)), FALSE) : FetchReturns(s, o)
    \/ \E s \in Slots : \E o \in ReadOutcomes(req[s], {FALSE}, FALSE) : ReadReturns(s, o)
    \/ \E ctx \in ContextInputs : SetContext(ctx)
    \/ GetContext
    \/ \E m \in ModelInputs : SetModel(m)
    \/ GetModel
    \/ \E e \in BOOLEAN : SetHistoryEnabled(e)
    \/ ResetAll

SpecInput == Init /\ [][NextInput]_vars

\* The panel: overlapping requests whose events reach a mounted voice panel.
NextPanel ==
    \/ MountPanel
    \/ \E s \in Slots : \E i \in SubmitInputs({"audio"}, {""}, FALSE) :
          submitted < MaxPanelSubmit /\ Submit(s, i.buffer, i.model, i.writeOk)
    \/ \E s \in Slots : \E o \in SttOutcomes({"error"}, SttResponses(req[s].n), TRUE) : SttReturns(s, o)
    \/ \E s \in Slots : req[s].pc = "fetch"
          /\ \E o \in FetchOutcomes({"http"}, StreamsLight(Attempted(s)), TRUE) : FetchReturns(s, o)
    \/ \E s \in Slots : \E o \in ReadOutcomes(req[s], {FALSE}, FALSE) : ReadReturns(s, o)
    \/ ResetAll

SpecPanel == Init /\ [][NextPanel]_vars

\* ================================================================ claims
Count(seq, type) == Cardinality({ i \in 1..Len(seq) : seq[i].type = type })
EventsOf(seq, type) == SelectSeq(seq, LAMBDA e : e.type = type)

\* The step in which the panel's submission number n+1 is handled in slot s.
SubmitStep(s) == submitted' = submitted + 1 /\ req'[s].n = submitted'
\* The step in which the invocation in slot s returns.
ReturnStep(s) == req'[s].pc = "done" /\ (req[s].pc # "done" \/ req'[s].n # req[s].n)

\* C1: at most one voice request is between its admission and its return
\* (persisting, transcribing, prompt-building or generating) at any time.
C1_SingleFlight == Cardinality({ s \in Slots : InFlight(s) }) <= 1

\* C2: a submission that arrives while another request is in flight, in any
\* phase from admission to return, is rejected at once with "Another voice
\* request in progress": it sends no event, reaches no file or network (it
\* never waits for transcription), and leaves the history, the flag and the
\* request in flight as they are.
C2_RejectedWhileInFlight ==
    [][\A s \in Slots :
         (SubmitStep(s) /\ \E t \in Slots : t # s /\ InFlight(t))
         => /\ req'[s].pc = "done"
            /\ req'[s].ret = Failure(ErrBusy)
            /\ log'[s] = <<>>
            /\ \A t \in Slots : t # s => req'[t] = req[t] /\ log'[t] = log[t]
            /\ UNCHANGED <<voiceHistory, voiceStreamingActive>>]_vars

\* C3: once abort is asked for while a request is streaming, the flag is
\* false and exactly one aborted event has been sent for it, and afterwards
\* the request sends no partial and no result event and appends no turn.
AbortStep(s) == ~req[s].abortReq /\ req'[s].abortReq
C3_AbortStopsStream ==
    [][\A s \in Slots :
         /\ (AbortStep(s) /\ req[s].pc \in {"fetch", "read"})
            => ~voiceStreamingActive' /\ Count(log'[s], "aborted") = 1
         /\ (req[s].abortReq /\ req'[s].n = req[s].n /\ req[s].pc \in {"fetch", "read"})
            => /\ Count(log'[s], "partial") = Count(log[s], "partial")
               /\ Count(log'[s], "result") = 0
               /\ voiceHistory' = voiceHistory]_vars

\* The deltas a stream carries, and their concatenation.
Deltas(lines) == SelectSeq([i \in 1..Len(lines) |-> lines[i].response], LAMBDA d : d # <<>>)
RECURSIVE Concat(_)
Concat(ds) == IF ds = <<>> THEN <<>> ELSE Head(ds) \o Concat(Tail(ds))
\* Deltas d1..dn (n >= 1) in JSON lines, the last line carrying the done marker.
DeltasThenDone(lines) ==
    /\ lines # <<>>
    /\ \A i \in 1..Len(lines) : lines[i].kind = "json"
    /\ lines[Len(lines)].done
    /\ Deltas(lines) # <<>>
\* The step in which request s reads the end of candidate k+1's stream, every
\* candidate before it having failed at the generation call.
EndOfStreamStep(s) ==
    /\ req[s].pc = "read" /\ req'[s].pc = "done"
    /\ req'[s].failedModels = req[s].failedModels
    /\ req[s].readErrs = 0

\* C4: when the first k candidates fail at the generation call and candidate
\* k+1 streams deltas d1..dn and a done marker, the request succeeds with the
\* answer d1..dn and model k+1, and exactly n partial events were sent, all
\* naming candidate k+1 (no later candidate is contacted).
C4_FallbackAnswer ==
    [][\A s \in Slots :
         (EndOfStreamStep(s) /\ DeltasThenDone(req[s].sent))
         => LET r == req[s]
                m == r.candidateModels[r.idx]
                partials == EventsOf(log'[s], "partial")
            IN  /\ req'[s].ret.success
                /\ req'[s].ret.answer = Concat(Deltas(r.sent))
                /\ req'[s].ret.model = m
                /\ Len(req'[s].failedModels) = r.idx - 1
                /\ Len(partials) = Len(Deltas(r.sent))
                /\ \A i \in 1..Len(partials) : partials[i].model = m]_vars

\* The same with every line of the stream read in one piece.
C4_FallbackAnswerWholeLines ==
    [][\A s \in Slots :
         (EndOfStreamStep(s) /\ DeltasThenDone(req[s].sent) /\ Len(EventsOf(log[s], "partial")) = Len(Deltas(req[s].sent)))
         => LET r == req[s]
                m == r.candidateModels[r.idx]
                partials == EventsOf(log'[s], "partial")
            IN  /\ req'[s].ret.success
                /\ req'[s].ret.answer = Concat(Deltas(r.sent))
                /\ req'[s].ret.model = m
                /\ Len(req'[s].failedModels) = r.idx - 1
                /\ \A i \in 1..Len(partials) : partials[i].model = m]_vars

\* C5: a candidate that fails, at the call or while its stream is read with
\* deltas already accumulated, leaves an empty answer for the next candidate:
\* the answer holds only deltas of the candidate being read, the answer of a
\* result holds only deltas of the model the result names, and that model is
\* the first candidate that did not fail.
OnlyFrom(answer, m) == \A i \in 1..Len(answer) : answer[i][1] = m
C5_FallbackDiscards ==
    \A s \in Slots :
        LET r == req[s]
        IN  /\ r.pc \in {"fetch", "read"}
               => r.failedModels = SubSeq(r.candidateModels, 1, r.idx - 1)
            /\ r.pc = "fetch" => r.answer = <<>> /\ r.usedModel = ""
            /\ r.pc = "read" => r.usedModel = r.candidateModels[r.idx] /\ OnlyFrom(r.answer, r.usedModel)
            /\ (r.pc = "done" /\ r.admitted /\ r.ret.success)
               => /\ r.ret.answer = NoAnswer \/ OnlyFrom(r.ret.answer, r.ret.model)
                  /\ r.ret.model = r.candidateModels[Len(r.failedModels) + 1]
\* A request succeeded with deltas of its model after an earlier candidate had
\* sent deltas and then failed.
C5_Witness ==
    \E s \in Slots :
        /\ req[s].pc = "done" /\ req[s].ret.success /\ req[s].ret.answer # NoAnswer
        /\ \E i \in 1..Len(log[s]) : log[s][i].type = "partial" /\ log[s][i].model # req[s].ret.model

\* A returned request every candidate of which failed.
AllFailed(r) ==
    /\ r.pc = "done" /\ r.admitted
    /\ r.candidateModels # <<>>
    /\ Len(r.failedModels) = Len(r.candidateModels)
Last(seq) == seq[Len(seq)]
\* What the return of a request whose candidates all failed looks like.
AllFailedReturn(s) ==
    /\ req'[s].ret = Failure(ErrAllModels)
    /\ Count(log'[s], "error") = 1
    /\ Last(log'[s]) = ErrorEv(ErrAllModels)
    /\ Count(log'[s], "result") = 0
    /\ ~voiceStreamingActive'
\* Only the successful return of a request changes the history in a step of
\* that request (a resetAll is no step of it).
OnlySuccessPushes(s) ==
    (req'[s] # req[s] /\ voiceResetSent' = voiceResetSent /\ voiceHistory' # voiceHistory)
    => (ReturnStep(s) /\ req'[s].ret.success)

\* C6 as stated: when every candidate fails the request returns
\* {success:false, error:"LLM generation failed for all models"}, with one
\* error event of that message, no result event, the flag false, and the
\* history exactly what it was before the call.
C6_AllModelsFailHistoryAsBefore ==
    [][\A s \in Slots :
         (ReturnStep(s) /\ AllFailed(req'[s]))
         => AllFailedReturn(s) /\ voiceHistory' = req[s].histAtAdm]_vars

\* C6 amended: ... and no step of that request changes the history (a
\* clear-history, a resetAll or another request's completion in between may).
C6_AllModelsFail ==
    [][\A s \in Slots :
         /\ (ReturnStep(s) /\ AllFailed(req'[s])) => AllFailedReturn(s) /\ voiceHistory' = voiceHistory
         /\ OnlySuccessPushes(s)]_vars
C6_Witness == \E s \in Slots : AllFailed(req[s]) /\ voiceHistory # <<>>

\* How an admitted request that fails returns: {success:false, error} with a
\* message, one error event, its last, carrying that message, the flag false.
FailureMessages == {ErrNoBuffer, ErrWrite, ErrFormData, ErrForm, ErrStt, ErrEmptyStt, ErrAllModels}
CaughtFailure(s) ==
    (ReturnStep(s) /\ req'[s].admitted)
    => /\ ~req'[s].ret.pending
       /\ ~req'[s].ret.success
          => /\ req'[s].ret.error \in FailureMessages
             /\ Count(log'[s], "error") = 1
             /\ Last(log'[s]) = ErrorEv(req'[s].ret.error)
             /\ ~voiceStreamingActive'

\* C7: every failure of an admitted request (a missing or empty buffer, the
\* audio file not written, the transcription failing or empty, every model
\* failing) is caught inside the handler, which returns (never throws)
\* {success:false, error}, has sent an error event carrying that message and
\* leaves the flag false; a request with an empty buffer is such a failure.
C7_FailureSemantics ==
    [][\A s \in Slots :
         /\ CaughtFailure(s)
         /\ (ReturnStep(s) /\ req[s].buffer = "empty" /\ req'[s].n = req[s].n)
            => ~req'[s].ret.success]_vars
\* C7 for the failures the handler knows: each is caught as the claim says.
C7_CaughtFailures == [][\A s \in Slots : CaughtFailure(s)]_vars
\* C8: an admitted request ends Completed (one result event, no error event,
\* success:true) or Failed (one error event, no result event, success:false,
\* the history not changed by it), never both, and has sent neither event
\* before it ends.
C8_TerminalOutcomes ==
    [][\A s \in Slots :
         /\ req'[s].admitted
            => LET results == Count(log'[s], "result")
                   errors == Count(log'[s], "error")
               IN  IF req'[s].pc = "done"
                   THEN IF req'[s].ret.success THEN results = 1 /\ errors = 0
                        ELSE results = 0 /\ errors = 1
                   ELSE results = 0 /\ errors = 0
         /\ (ReturnStep(s) /\ req'[s].admitted /\ ~req'[s].ret.success) => voiceHistory' = voiceHistory
         /\ OnlySuccessPushes(s)]_vars
\* One request has completed and another has failed.
C8_Witness ==
    \E s, t \in Slots :
        /\ req[s].pc = "done" /\ req[s].ret.success
        /\ req[t].pc = "done" /\ req[t].admitted /\ ~req[t].ret.success

\* C9: whatever the interleaving of successful and failed requests,
\* clear-history, set-history-enabled and resetAll, the history holds at most
\* 15 turns.
C9_HistoryBound == Len(voiceHistory) <= VOICE_HISTORY_MAX_TURNS
\* The history is full and its oldest turn has been evicted.
C9_Witness ==
    /\ Len(voiceHistory) = VOICE_HISTORY_MAX_TURNS
    /\ voiceHistory[1].q = Utterance(2)

\* C10: from an empty history with history enabled, after N successful
\* requests (and no clear, reset or disabling in between) the history is the
\* min(N, 15) most recent question/answer pairs, oldest first.
C10_FifoEviction ==
    undisturbed
    => LET N == Len(succeeded)
           kept == Min(N, 15)
       IN  /\ Len(voiceHistory) = kept
           /\ \A i \in 1..kept : voiceHistory[i] = succeeded[N - kept + i]
\* Sixteen requests have succeeded in a row.
C10_Witness == undisturbed /\ Len(succeeded) = 16 /\ voiceHistory[15] = succeeded[16]

\* The step in which the admitted request in slot s returns, history enabled.
EnabledReturn(s) == ReturnStep(s) /\ req'[s].admitted /\ voiceHistoryEnabled
\* The turn a request in slot s that read the text `answer` would leave.
Appended(s) == voiceHistory' = PushTurn(voiceHistory, Turn(req[s].transcription, FinalAnswer(req[s].answer)))

\* C11: a turn is appended to the history if and only if the request reached
\* a non-empty answer: none for a request that failed or whose stream
\* produced no text, one for every request that produced text.
C11_TurnIffAnswer ==
    [][\A s \in Slots :
         EnabledReturn(s)
         => IF req'[s].ret.success /\ req[s].answer # <<>>
            THEN Appended(s)
            ELSE voiceHistory' = voiceHistory]_vars
\* C11 as the handler has it: a turn is appended if and only if the request
\* succeeded, the placeholder answer of a stream without text included.
C11_TurnIffSuccess ==
    [][\A s \in Slots :
         EnabledReturn(s)
         => IF req'[s].ret.success THEN Appended(s) ELSE voiceHistory' = voiceHistory]_vars

\* The partial events request s has sent, in the order it sent them.
Partials(s) == EventsOf(log[s], "partial")
IsProperPrefix(a, b) == Len(a) < Len(b) /\ SubSeq(b, 1, Len(a)) = a

\* C12: the partial events of one request each carry a non-empty delta and a
\* cumulative answer that extends the cumulative answer of the partial event
\* before it by that delta, for the whole request, a fallback from one model
\* to the next included.
C12_PartialOrdering ==
    \A s \in Slots :
        LET ps == Partials(s)
        IN  \A i \in 1..Len(ps) :
              /\ ps[i].delta # <<>>
              /\ ps[i].requestId = req[s].n
              /\ IF i = 1 THEN ps[i].answer = ps[i].delta
                 ELSE /\ IsProperPrefix(ps[i - 1].answer, ps[i].answer)
                      /\ ps[i].answer = ps[i - 1].answer \o ps[i].delta
\* C12 within one model's stream: the cumulative answer starts anew with the
\* first partial event of each model and grows by each delta after it.
C12_PartialOrderingPerModel ==
    \A s \in Slots :
        LET ps == Partials(s)
        IN  \A i \in 1..Len(ps) :
              /\ ps[i].delta # <<>>
              /\ ps[i].requestId = req[s].n
              /\ IF i = 1 \/ ps[i - 1].model # ps[i].model THEN ps[i].answer = ps[i].delta
                 ELSE /\ IsProperPrefix(ps[i - 1].answer, ps[i].answer)
                      /\ ps[i].answer = ps[i - 1].answer \o ps[i].delta

\* Request t has sent a status, partial or result event.
Begun(t) == \E i \in 1..Len(log[t]) : log[t][i].type \in {"status", "partial", "result"}

\* C13: once a newer request has sent a status, partial or result event, an
\* older request sends no partial and no result event any more.
C13_NoStaleEvents ==
    [][\A s, t \in Slots :
         (req[s].n > 0 /\ req'[s].n = req[s].n /\ req[t].n > req[s].n /\ Begun(t))
         => /\ Count(log'[s], "partial") = Count(log[s], "partial")
            /\ Count(log'[s], "result") = Count(log[s], "result")]_vars

\* The step in which resetAll runs: it sends 'voice:reset'.
ResetStep == voiceResetSent' = voiceResetSent + 1

\* C14: right after resetAll the history is empty and the flag is false, and
\* a voice reset event, which is no aborted event of any request, has been
\* sent; whether or not a request was in flight.
C14_ResetAll ==
    [][ResetStep
       => /\ voiceHistory' = <<>>
          /\ ~voiceStreamingActive'
          /\ \A s \in Slots : Count(log'[s], "aborted") = 0]_vars
\* resetAll has run while a request was reading a model's stream.
C14_Witness ==
    /\ voiceResetSent > 0
    /\ voiceHistory = <<>>
    /\ \E s \in Slots : req[s].pc = "read" /\ ~voiceStreamingActive

\* C15: a submission whose buffer is missing or has byteLength 0 fails before
\* any network call: no request with such a buffer is ever waiting for the
\* transcription or the generation endpoint.
C15_EmptyBufferRejected ==
    \A s \in Slots : InFlight(s) => req[s].buffer \notin {"missing", "empty"}
\* C15 for the buffer the handler does check: a missing one.
C15_MissingBufferRejected ==
    \A s \in Slots : InFlight(s) => req[s].buffer # "missing"

\* The step in which the transcription of request s has failed or come back
\* without text.
SttFailedStep(s) == req[s].pc = "stt" /\ req'[s].n = req[s].n /\ req'[s].sttKind \in {"error", "empty"}

\* C16: a failed transcription call fails the request with "Transcription
\* failed", one without usable text with "Empty transcription result"; the
\* endpoint was called once, no generation call is made, no status event with
\* a requestId and no partial event is sent, and the history is unchanged.
C16_TranscriptionFailureTerminal ==
    [][\A s \in Slots :
         SttFailedStep(s)
         => /\ req'[s].pc = "done"
            /\ req'[s].ret = Failure(IF req'[s].sttKind = "error" THEN ErrStt ELSE ErrEmptyStt)
            /\ req'[s].sttCalls = 1
            /\ req'[s].candidateModels = <<>>
            /\ \A i \in 1..Len(log'[s]) :
                 /\ log'[s][i].type # "partial"
                 /\ log'[s][i].type = "status" => log'[s][i].requestId = 0
            /\ voiceHistory' = voiceHistory]_vars
\* One request's transcription call has failed, another's brought no text.
C16_Witness ==
    \E s, t \in Slots :
        /\ req[s].pc = "done" /\ req[s].sttKind = "error"
        /\ req[t].pc = "done" /\ req[t].sttKind = "empty"

\* The step in which request s, its transcript in hand, builds its candidates
\* and its prompt.
BuildStep(s) == req[s].pc = "stt" /\ req'[s].pc = "fetch"
\* The head of the list: the override, else the preferred model, else nothing.
HeadModels(override, preferred) ==
    IF override # "" THEN <<override>> ELSE IF preferred # "" THEN <<preferred>> ELSE <<>>
NoDuplicates(seq) == \A i, j \in 1..Len(seq) : seq[i] = seq[j] => i = j

\* C17: the models tried are the override if given, else the preferred model
\* if set, else nothing, followed by the default list in its order without
\* the names already present; no duplicates; an override keeps the preferred
\* model from the head.
C17_CandidateOrdering ==
    [][\A s \in Slots :
         BuildStep(s)
         => LET head == HeadModels(req[s].model, voicePreferredModel)
                rest == SelectSeq(defaultModels, LAMBDA d : ~Includes(head, d))
                cands == req'[s].candidateModels
            IN  /\ cands = head \o rest
                /\ NoDuplicates(cands)
                /\ req[s].model # "" => cands[1] = req[s].model
                /\ (req[s].model # "" /\ voicePreferredModel # req[s].model
                    /\ ~Includes(defaultModels, voicePreferredModel))
                   => ~Includes(cands, voicePreferredModel)]_vars
\* A request with the override llama3 while qwen2 is the preferred model.
C17_Witness ==
    \E s \in Slots :
        /\ req[s].pc = "fetch" /\ req[s].model = "llama3" /\ voicePreferredModel = "qwen2"
        /\ req[s].candidateModels = <<"llama3", "phi3:latest", "mistral:latest", "gemma3:12b-it-qat">>

\* The formatted length of a turn, "Q: " q "\nA: " a "\n\n", and of some turns.
Formatted(turn) == Len(turn.q) + AnswerChars(turn.a) + 9
RECURSIVE FormattedSum(_)
FormattedSum(turns) == IF turns = <<>> THEN 0 ELSE Formatted(Head(turns)) + FormattedSum(Tail(turns))
\* The last k turns of a history.
Newest(history, k) == SubSeq(history, Len(history) - k + 1, Len(history))

\* C18: with history enabled, the history section holds exactly the longest
\* suffix of the history whose formatted lengths sum to at most the budget,
\* oldest first; a turn that does not fit ends the selection; the section is
\* empty when the newest turn alone does not fit.
C18_WindowSelection ==
    [][\A s \in Slots :
         (BuildStep(s) /\ voiceHistoryEnabled)
         => LET section == req'[s].prompt.historySection
                k == Len(section.blocks)
            IN  /\ k <= Len(voiceHistory)
                /\ section.blocks = Newest(voiceHistory, k)
                /\ FormattedSum(section.blocks) <= VOICE_HISTORY_CHAR_LIMIT
                /\ k < Len(voiceHistory)
                   => FormattedSum(Newest(voiceHistory, k + 1)) > VOICE_HISTORY_CHAR_LIMIT
                /\ section.header <=> k > 0]_vars
\* A prompt with the two newest of three turns: the oldest did not fit.
C18_Witness ==
    \E s \in Slots :
        /\ req[s].pc = "fetch" /\ Len(voiceHistory) = 3
        /\ Len(req[s].prompt.historySection.blocks) = 2
        /\ req[s].prompt.historySection.blocks = Newest(voiceHistory, 2)

\* C19: the rendered history section is never longer than the character
\* budget plus the header, whatever the history; it is the empty string when
\* no turn fits, and would be for a budget of 0.
C19_WindowSize ==
    [][\A s \in Slots :
         BuildStep(s)
         => LET section == req'[s].prompt.historySection
            IN  /\ SectionChars(section) <= VOICE_HISTORY_CHAR_LIMIT + HeaderChars
                /\ (voiceHistory # <<>> /\ Formatted(voiceHistory[Len(voiceHistory)]) > VOICE_HISTORY_CHAR_LIMIT)
                   => section = EmptySection /\ SectionChars(section) = 0
                /\ HistorySection(voiceHistory, voiceHistoryEnabled, 0) = EmptySection]_vars
\* A prompt whose history section has exactly budget plus header characters,
\* an older turn left out.
C19_Witness ==
    \E s \in Slots :
        /\ req[s].pc = "fetch" /\ Len(voiceHistory) = 2
        /\ Len(req[s].prompt.historySection.blocks) = 1
        /\ SectionChars(req[s].prompt.historySection) = VOICE_HISTORY_CHAR_LIMIT + HeaderChars

\* The turn of the request that completed last.
LastCompleted == succeeded[Len(succeeded)]

\* C20: a request completes with history enabled; the prompt the next request
\* builds (history still enabled, not cleared in between) has that turn's
\* question and answer in its history section, text for text, if the turn's
\* formatted length is within the budget.
C20_RoundTrip ==
    [][\A s \in Slots :
         (BuildStep(s) /\ voiceHistoryEnabled /\ undisturbed /\ succeeded # <<>>
            /\ Formatted(LastCompleted) <= VOICE_HISTORY_CHAR_LIMIT)
         => LET blocks == req'[s].prompt.historySection.blocks
            IN  /\ req'[s].prompt.historySection.header
                /\ blocks # <<>>
                /\ blocks[Len(blocks)].q = LastCompleted.q
                /\ blocks[Len(blocks)].a = LastCompleted.a
                /\ req'[s].prompt.question = req'[s].transcription]_vars
\* The prompt of the third request holds the turn of the second, whose
\* formatted length is exactly the budget.
C20_Witness ==
    \E s \in Slots :
        /\ req[s].pc = "fetch" /\ req[s].n = 3 /\ undisturbed /\ Len(succeeded) = 2
        /\ Formatted(LastCompleted) = VOICE_HISTORY_CHAR_LIMIT
        /\ req[s].prompt.historySection.blocks = <<LastCompleted>>

\* The result events request s has sent.
Results(s) == EventsOf(log[s], "result")
\* The step in which request s returns success.
SuccessStep(s) == ReturnStep(s) /\ req'[s].ret.success

\* C21: every result event and every success return value carries a
\* non-empty answer; when the successful model's stream yielded no text the
\* answer is the placeholder "No answer generated.".
C21_NonEmptyAnswer ==
    [][\A s \in Slots :
         /\ \A i \in 1..Len(Results(s)') : Results(s)'[i].answer # <<>>
         /\ SuccessStep(s)
            => /\ req'[s].ret.answer # <<>>
               /\ req[s].answer = <<>>
                  => /\ req'[s].ret.answer = <<Tok("", "No answer generated.")>>
                     /\ Results(s)'[1].answer = <<Tok("", "No answer generated.")>>
               /\ req[s].answer # <<>> => req'[s].ret.answer = req[s].answer]_vars
\* A request has succeeded with the placeholder for an answer.
C21_Witness ==
    \E s \in Slots :
        /\ req[s].pc = "done" /\ req[s].ret.success
        /\ req[s].ret.answer = <<Tok("", "No answer generated.")>>

\* C22: a successful request has sent exactly one result event {question,
\* answer, model, requestId}, after all its partial events; its return value
\* carries the same four values; the requestId is that of its partial events
\* and of its status event with a requestId.
C22_FinalResult ==
    \A s \in Slots :
        (req[s].pc = "done" /\ req[s].ret.success)
        => LET result == log[s][Len(log[s])]
               ret == req[s].ret
               ids == { log[s][i].requestId : i \in { j \in 1..Len(log[s]) :
                          \/ log[s][j].type = "partial"
                          \/ log[s][j].type = "status" /\ log[s][j].requestId # 0 } }
           IN  /\ Count(log[s], "result") = 1
               /\ result.type = "result"
               /\ result.question = ret.question /\ result.answer = ret.answer
               /\ result.model = ret.model /\ result.requestId = ret.requestId
               /\ ids = {result.requestId}
               /\ Cardinality({ j \in 1..Len(log[s]) :
                                  log[s][j].type = "status" /\ log[s][j].requestId # 0 }) = 1
\* A request has succeeded after two partial events.
C22_Witness ==
    \E s \in Slots :
        /\ req[s].pc = "done" /\ req[s].ret.success
        /\ Count(log[s], "partial") = 2
        /\ Len(req[s].failedModels) = 1

\* The first clear-history of a run: an admin call that is no resetAll and
\* ends the undisturbed run of completions.
FirstClearStep ==
    nAdmin' = nAdmin + 1 /\ undisturbed /\ ~undisturbed' /\ voiceResetSent' = voiceResetSent

\* C23: while history is disabled a successful request leaves the history as
\* it is and still sends its result, and clear-history still empties the
\* history; with history enabled (again) a successful request appends.
C23_HistoryToggle ==
    [][/\ \A s \in Slots :
            SuccessStep(s)
            => /\ Count(log'[s], "result") = 1
               /\ voiceHistory' = IF voiceHistoryEnabled
                                  THEN PushTurn(voiceHistory, Turn(req'[s].ret.question, req'[s].ret.answer))
                                  ELSE voiceHistory
       /\ FirstClearStep => voiceHistory' = <<>>]_vars
\* Two requests have succeeded and two admin calls were made; history is
\* enabled and holds the second request's turn only: the first completed
\* while history was disabled, the second after it was enabled again.
C23_Witness ==
    /\ nAdmin = 2 /\ voiceHistoryEnabled /\ submitted = 2
    /\ Len(voiceHistory) = 1 /\ voiceHistory[1].q = Utterance(2)
    /\ \E s \in Slots : req[s].pc = "done" /\ req[s].ret.success /\ req[s].n = 2
\* clear-history has emptied a history of one turn while history was disabled.
C23_Cleared ==
    /\ nAdmin = 2 /\ ~voiceHistoryEnabled /\ ~undisturbed
    /\ voiceHistory = <<>> /\ submitted = 1
    /\ \E s \in Slots : req[s].pc = "done" /\ req[s].ret.success

\* C24: a line of the generation stream that is not valid JSON does not fail
\* the attempt, sends no partial event and leaves the answer as it is, and
\* every valid line that the same stream holds after it still contributes its
\* delta: when the end of a stream holding a malformed line is read, the
\* request succeeds, the answer ends with the deltas of the valid lines sent
\* after the malformed line, and no more partial events were sent than the
\* stream has deltas.
HasMalformed(lines) == \E i \in 1..Len(lines) : lines[i].kind = "malformed"
AfterMalformed(lines) ==
    LET k == CHOOSE i \in 1..Len(lines) :
                 lines[i].kind = "malformed" /\ \A j \in i + 1..Len(lines) : lines[j].kind # "malformed"
    IN  SubSeq(lines, k + 1, Len(lines))
EndsWith(seq, tail) ==
    /\ Len(seq) >= Len(tail)
    /\ SubSeq(seq, Len(seq) - Len(tail) + 1, Len(seq)) = tail
C24_MalformedSkipped ==
    [][\A s \in Slots :
         (EndOfStreamStep(s) /\ HasMalformed(req[s].sent))
         => LET r == req[s]
            IN  /\ req'[s].ret.success
                /\ EndsWith(r.answer, Concat(Deltas(AfterMalformed(r.sent))))
                /\ req'[s].ret.answer = FinalAnswer(r.answer)
                /\ Len(EventsOf(log'[s], "partial")) <= Len(Deltas(r.sent))]_vars

\* The same for the lines that one read brings in one piece: the read neither
\* fails the attempt nor ends the request, the answer grows by the deltas of
\* the valid lines of the chunk and by nothing else, and one partial event is
\* sent for each of these deltas.
C24_MalformedSkippedInChunk ==
    [][\A s \in Slots :
         (req[s].pc = "read" /\ req'[s].pc = "read" /\ req'[s].pos > req[s].pos)
         => LET r == req[s]
                lines == SubSeq(r.sent, r.pos + (IF r.frag THEN 1 ELSE 0) + 1, req'[s].pos)
            IN  /\ req'[s].failedModels = r.failedModels
                /\ req'[s].idx = r.idx
                /\ req'[s].answer = r.answer \o Concat(Deltas(lines))
                /\ Len(log'[s]) = Len(log[s]) + Len(Deltas(lines))
                /\ \A i \in Len(log[s]) + 1..Len(log'[s]) : log'[s][i].type = "partial"]_vars
\* A malformed line has been read in one piece with a valid line after it.
C24_Skipped ==
    \E s \in Slots :
        /\ req[s].pc = "read" /\ HasMalformed(SubSeq(req[s].sent, 1, req[s].pos))
        /\ ~req[s].frag /\ req[s].pos = Len(req[s].sent)
        /\ req[s].answer = Concat(Deltas(req[s].sent))

\* C25: an attempt is a successful completion only if its stream delivered a
\* line with done = true: a request that returns success from the reading of
\* a stream was sent a done marker on that stream, and its answer holds the
\* deltas sent up to that marker and nothing sent after it.
HasDone(lines) == \E i \in 1..Len(lines) : lines[i].done
UpToDone(lines) ==
    SubSeq(lines, 1, CHOOSE i \in 1..Len(lines) : lines[i].done /\ \A j \in 1..i - 1 : ~lines[j].done)
C25_DoneMarker ==
    [][\A s \in Slots :
         (req[s].pc = "read" /\ ReturnStep(s) /\ req'[s].ret.success)
         => /\ HasDone(req[s].sent)
            /\ Len(req[s].answer) <= Len(Concat(Deltas(UpToDone(req[s].sent))))]_vars

\* C30: the audio file is written before the transcription call, and a failed
\* write is fatal: a request that is past its admission and has not returned,
\* or whose transcription endpoint was called, has its file on disk; a request
\* that failed on the write returned {success: false} with one error event and
\* no other event, without a call of the transcription endpoint and without
\* entering the loop over the candidate models.
C30_WriteBeforeStt ==
    \A s \in Slots :
        LET r == req[s]
        IN  /\ (r.pc \in {"stt", "fetch", "read"} \/ r.sttCalls > 0 \/ r.candidateModels # <<>>)
               => r.fileWritten
            /\ (r.pc = "done" /\ ~r.ret.success /\ r.ret.error = ErrWrite)
               => /\ ~r.fileWritten
                  /\ r.sttCalls = 0 /\ r.sttKind = ""
                  /\ r.candidateModels = <<>> /\ r.failedModels = <<>>
                  /\ log[s] = <<ErrorEv(ErrWrite)>>
\* A request has failed on the write of its audio file.
C30_Witness ==
    \E s \in Slots :
        /\ req[s].pc = "done" /\ req[s].admitted /\ req[s].ret.error = ErrWrite
        /\ log[s] = <<ErrorEv(ErrWrite)>>

\* C26: the transcript is the first non-empty value among the response fields
\* text, transcription, result, in that order; with none of them non-empty
\* the request fails with "Empty transcription result".  Whatever the fields
\* of the response the transcription call returns with, the request goes on
\* with that value as its question, or returns that failure.
FirstNonEmpty(values) ==
    IF \A i \in 1..Len(values) : values[i] = NoText THEN NoText
    ELSE values[CHOOSE i \in 1..Len(values) :
                    values[i] # NoText /\ \A j \in 1..i - 1 : values[j] = NoText]
C26_TranscriptPrecedence ==
    [][\A s \in Slots : \A d \in SttResponsesRich(req[s].n) :
         SttReturns(s, [kind |-> "ok", data |-> d])
         => LET t == FirstNonEmpty(<<d.text, d.transcription, d.result>>)
            IN  IF t = NoText
                THEN /\ req'[s].pc = "done"
                     /\ req'[s].ret = Failure(ErrEmptyStt)
                     /\ Last(log'[s]) = ErrorEv(ErrEmptyStt)
                     /\ Count(log'[s], "error") = 1
                ELSE /\ req'[s].pc = "fetch"
                     /\ req'[s].transcription = t
                     /\ req'[s].prompt.question = t
                     /\ Last(log'[s]) = StatusEv("llm", t, req[s].n)]_vars
\* A request goes on with the value of the transcription field, and another
\* with the value of the result field: the fields before them were empty.
C26_Witness ==
    \E s \in Slots :
        /\ req[s].pc = "fetch"
        /\ req[s].transcription = Utterance(req[s].n + 10)
        /\ req[s].prompt.question = Utterance(req[s].n + 10)
C26_ResultUsed ==
    \E s \in Slots : req[s].pc = "fetch" /\ req[s].transcription = Utterance(req[s].n + 20)

\* C27: the stored voice context never exceeds 4000 characters; set-context
\* stores the first 4000 characters of its argument (all of it when it is
\* shorter, nothing for a missing one), and get-context returns exactly what
\* the last set-context before it stored.
First4000(ctx) == IF ctx.len = 0 THEN EmptyText
                  ELSE [ctx EXCEPT !.len = IF ctx.len > 4000 THEN 4000 ELSE ctx.len]
RECURSIVE StoredAfter(_, _)
StoredAfter(calls, i) ==
    IF i = 0 THEN EmptyText
    ELSE IF calls[i].op = "set" THEN First4000(calls[i].arg)
    ELSE StoredAfter(calls, i - 1)
C27_ContextCap ==
    /\ voiceContext.len <= 4000
    /\ voiceContext = StoredAfter(contextCalls, Len(contextCalls))
    /\ \A i \in 1..Len(contextCalls) :
          contextCalls[i].op = "get" => contextCalls[i].ret = StoredAfter(contextCalls, i - 1)
    /\ \A s \in Slots : req[s].pc \in {"fetch", "read"} => req[s].prompt.systemPrefix.context.len <= 4000
\* A context of 5000 characters was set and then read back as its first 4000.
C27_Witness ==
    /\ Len(contextCalls) = 2
    /\ contextCalls[1].op = "set" /\ contextCalls[1].arg.len = 5000
    /\ contextCalls[2].op = "get" /\ contextCalls[2].ret = Txt("book", 4000, FALSE)
    /\ voiceContext.len = 4000

\* C28: with no call left pending for ever, every admitted request returns
\* (completed or failed) and voiceStreamingActive is false when it does;
\* whenever no request is left in flight the flag is false, so that the next
\* submission is admitted.
C28_Liveness ==
    /\ \A s \in Slots :
          (InFlight(s) /\ req[s].admitted)
          ~> (req[s].pc = "done" /\ ~req[s].ret.pending /\ ~voiceStreamingActive)
    /\ [](Quiet => ~voiceStreamingActive)
    /\ [][\A s \in Slots : (SubmitStep(s) /\ Quiet) => req'[s].admitted]_vars
\* The second submission arrived after the first request had succeeded and
\* left its turn in the history, and was admitted.
C28_Witness ==
    \E s \in Slots :
        /\ req[s].n = 2 /\ req[s].admitted /\ InFlight(s)
        /\ req[s].histAtAdm # <<>>
        /\ \A t \in Slots : t # s => ~InFlight(t)

\* C29: the voice panel guards by requestId: a partial event whose requestId
\* differs from the requestId of the request the panel is displaying does not
\* replace the displayed answer, model or requestId.
Delivered(s) == SubSeq(log'[s], Len(log[s]) + 1, Len(log'[s]))
StalePartials(s) ==
    /\ panel.mounted /\ panel.requestId # 0
    /\ req[s].pc = "read" /\ Delivered(s) # <<>>
    /\ \A i \in 1..Len(Delivered(s)) :
          Delivered(s)[i].type = "partial" /\ Delivered(s)[i].requestId # panel.requestId
C29_RequestIdGuard ==
    [][\A s \in Slots :
         StalePartials(s)
         => /\ panel'.answer = panel.answer
            /\ panel'.model = panel.model
            /\ panel'.requestId = panel.requestId]_vars

\* What the panel does: the partial event delivered last is displayed,
\* whatever request it belongs to; only the question stays.
C29_LastPartialWins ==
    [][\A s \in Slots :
         (panel.mounted /\ req[s].pc = "read" /\ req'[s].pc = "read" /\ Delivered(s) # <<>>)
         => /\ panel'.answer = Last(Delivered(s)).answer
            /\ panel'.model = Last(Delivered(s)).model
            /\ panel'.requestId = Last(Delivered(s)).requestId
            /\ panel'.question = panel.question
            /\ panel'.mode = "processing"]_vars
\* The panel shows the answer of request 1 under the question of request 2.
C29_Mixed ==
    /\ panel.mounted /\ panel.requestId = 1 /\ panel.answer # <<>>
    /\ panel.question = Utterance(2)

\* C31: the events of one request come in the order: the status event of the
\* transcription phase, the status event announcing generation with the
\* question, the status event carrying the requestId, the partial events of
\* that requestId, then the single result or error event, which is the last;
\* no partial event names a requestId that no earlier status event carried.
Stage(e) ==
    IF e.type = "status"
    THEN IF e.requestId # 0 THEN 3 ELSE IF e.question # NoText THEN 2 ELSE 1
    ELSE IF e.type = "partial" THEN 4 ELSE 5
C31_EventOrder ==
    \A s \in Slots :
        LET lg == log[s]
        IN  /\ \A i, j \in 1..Len(lg) : i < j => Stage(lg[i]) <= Stage(lg[j])
            /\ \A i, j \in 1..Len(lg) : (i < j /\ Stage(lg[i]) = Stage(lg[j])) => Stage(lg[i]) = 4
            /\ \A j \in 1..Len(lg) :
                  Stage(lg[j]) \in {2, 3, 4} => \E i \in 1..j - 1 : Stage(lg[i]) = Stage(lg[j]) - 1 \/ Stage(lg[i]) = Stage(lg[j])
            /\ \A j \in 1..Len(lg) :
                  lg[j].type = "result" => \E i \in 1..j - 1 : Stage(lg[i]) = 3
            /\ \A j \in 1..Len(lg) :
                  lg[j].type = "partial"
                  => \E i \in 1..j - 1 : lg[i].type = "status" /\ lg[i].requestId = lg[j].requestId
            /\ (req[s].pc = "done" /\ req[s].admitted) => Stage(Last(lg)) = 5
            /\ InFlight(s) => (lg # <<>> /\ Stage(lg[1]) = 1 /\ Stage(Last(lg)) # 5)
\* A request has sent its three status events, two partial events and its result.
C31_Witness ==
    \E s \in Slots :
        /\ req[s].pc = "done" /\ req[s].ret.success
        /\ Len(log[s]) = 6
        /\ [i \in 1..6 |-> Stage(log[s][i])] = <<1, 2, 3, 4, 4, 5>>
\* A request has failed after partial events: its error event comes last.
C31_ErrorAfterPartials ==
    \E s \in Slots :
        /\ req[s].pc = "done" /\ ~req[s].ret.success
        /\ Count(log[s], "partial") > 0 /\ Last(log[s]).type = "error"

\* C32: the admission lock is never stuck: whenever voiceStreamingActive is
\* true some request is inside the loop over the candidate models, and
\* whenever no request is executing the flag is false, whatever successes,
\* failures, rejections, clears and resets came before.
InLoop(s) == req[s].pc \in {"fetch", "read"}
C32_NoStuckLock ==
    /\ voiceStreamingActive => \E s \in Slots : InLoop(s)
    /\ (\A s \in Slots : ~InFlight(s)) => ~voiceStreamingActive
\* Nothing is executing after a rejection, a failure in the loop and an
\* admin call, and the flag is false.
C32_Witness ==
    /\ ~voiceStreamingActive /\ nAdmin > 0
    /\ \E s, t \in Slots :
          /\ req[s].pc = "done" /\ req[s].ret = Failure(ErrBusy)
          /\ req[t].pc = "done" /\ req[t].ret = Failure(ErrAllModels)

\* C33: the flag is cleared only by the request that set it, or by resetAll:
\* while a request is in its generation phase and the flag is true, a step
\* of another request (its failure or its completion) leaves the flag true.
C33_FlagOwnership ==
    [][\A s \in Slots :
         (voiceStreamingActive /\ InLoop(s) /\ req'[s] = req[s] /\ ~ResetStep)
         => voiceStreamingActive']_vars
\* Both requests are generating and the flag is true.
C33_BothGenerating ==
    /\ voiceStreamingActive
    /\ \A s \in Slots : InLoop(s)

\* C34: a request that was transcribing or generating when resetAll ran sends
\* no partial and no result event after the reset and appends no turn to the
\* history.
C34_ResetStopsRequest ==
    [][\A s \in Slots :
         (req[s].resetSeen /\ InFlight(s) /\ ~ResetStep)
         => /\ Count(log'[s], "partial") = Count(log[s], "partial")
            /\ Count(log'[s], "result") = Count(log[s], "result")
            /\ (ReturnStep(s) => voiceHistory' = voiceHistory)]_vars
\* What resetAll does to a request in flight: nothing.  Its locals, its events
\* and its place in the handler are as before the reset.
C34_ResetLeavesRequest ==
    [][ResetStep
       => /\ log' = log
          /\ \A s \in Slots : req'[s] = [req[s] EXCEPT !.resetSeen = @ \/ InFlight(s)]]_vars
\* The history holds the turn of a request that was in flight at a reset.
C34_TurnAfterReset ==
    /\ voiceResetSent = 1 /\ Len(voiceHistory) = 1
    /\ \E s \in Slots : req[s].pc = "done" /\ req[s].resetSeen /\ req[s].ret.success

\* C35: however the lines a model sent are cut into read chunks, a cut in the
\* middle of a line included, the answer at the end of the stream is the
\* concatenation of the response fields of all lines in order, and the deltas
\* of the partial events sent are these response fields in order.
C35_ChunkIndependence ==
    [][\A s \in Slots :
         EndOfStreamStep(s)
         => LET partials == EventsOf(log[s], "partial")
            IN  /\ req[s].answer = Concat(Deltas(req[s].sent))
                /\ [i \in 1..Len(partials) |-> partials[i].delta] = Deltas(req[s].sent)]_vars
\* The end of a stream is read after a line of it came in two pieces.
C35_LineLost ==
    \E s \in Slots :
        /\ req[s].pc = "read" /\ req[s].pos = Len(req[s].sent) /\ ~req[s].frag
        /\ Len(req[s].answer) < Len(Concat(Deltas(req[s].sent)))

\* C36: the result of a successful request agrees with its partial events:
\* if partial events were sent for the model the result names, the result's
\* answer and model are those of the last partial event of the request; if
\* none was sent for that model, the answer is the placeholder.
C36_ResultMatchesPartials ==
    \A s \in Slots :
        (req[s].pc = "done" /\ req[s].ret.success)
        => LET result == Last(log[s])
               partials == EventsOf(log[s], "partial")
               own == SelectSeq(partials, LAMBDA e : e.model = result.model)
           IN  /\ result.type = "result"
               /\ \A i \in 1..Len(partials) : partials[i].requestId = result.requestId
               /\ IF own # <<>>
                  THEN /\ Last(partials).answer = result.answer
                       /\ Last(partials).model = result.model
                  ELSE result.answer = NoAnswer
\* A request has succeeded with its second candidate after partial events of
\* both candidates, the answer being longer than the last delta.
C36_Witness ==
    \E s \in Slots :
        /\ req[s].pc = "done" /\ req[s].ret.success
        /\ Len(req[s].failedModels) = 1
        /\ \E i \in 1..Len(log[s]) : log[s][i].type = "partial" /\ log[s][i].model = req[s].failedModels[1]
        /\ Len(SelectSeq(log[s], LAMBDA e : e.type = "partial" /\ e.model = req[s].ret.model)) = 2
        /\ Len(req[s].ret.answer) = 2
\* A request has succeeded with the placeholder after partial events of a
\* candidate that failed.
C36_PlaceholderAfterPartials ==
    \E s \in Slots :
        /\ req[s].pc = "done" /\ req[s].ret.success /\ req[s].ret.answer = NoAnswer
        /\ Count(log[s], "partial") > 0

\* C37: resetAll leaves the voice context, the preferred model and the
\* history-enabled setting as they are; of the voice state it changes the
\* history and the in-flight flag only.
C37_ResetFrame ==
    [][ResetStep
       => /\ voiceContext' = voiceContext
          /\ voicePreferredModel' = voicePreferredModel
          /\ voiceHistoryEnabled' = voiceHistoryEnabled
          /\ contextCalls' = contextCalls /\ submitted' = submitted]_vars
\* resetAll has run with a context and a preferred model set, which are
\* still there; and with history disabled, which it still is.
C37_Witness ==
    /\ voiceResetSent = 1 /\ nAdmin = 2
    /\ voiceContext = Txt("cv", 4000, FALSE)
    /\ voicePreferredModel = "qwen2"
    /\ voiceHistory = <<>> /\ ~voiceStreamingActive
C37_DisabledKept ==
    /\ voiceResetSent = 1 /\ nAdmin = 2
    /\ voiceContext.len > 0 /\ ~voiceHistoryEnabled

\* C38: set-model with a value that is no string, is empty or holds white
\* space only returns {success: false, error: 'Invalid model'} and leaves the
\* preferred model as it is; with any other string it stores the trimmed
\* value and returns it; get-model returns the stored value; so a preferred
\* model once set is never empty again: it can be replaced, not cleared.
Rejected(m) == m \in {NotAString, "", "  "}
Trimmed(m) == IF m = " qwen2 " THEN "qwen2" ELSE m
C38_SetModelValidation ==
    [][/\ \A m \in ModelInputs :
            SetModel(m)
            => IF Rejected(m)
               THEN /\ voicePreferredModel' = voicePreferredModel
                    /\ ~modelReply'.success /\ modelReply'.error = "Invalid model"
               ELSE /\ voicePreferredModel' = Trimmed(m)
                    /\ modelReply'.success /\ modelReply'.model = Trimmed(m)
       /\ GetModel => modelReply'.model = voicePreferredModel
       /\ modelReply'.call = "get" => modelReply'.model = voicePreferredModel'
       /\ voicePreferredModel # "" => voicePreferredModel' # ""]_vars
\* A model was set with spaces around it, then an invalid value was refused,
\* and the trimmed model is still the preferred one.
C38_Witness ==
    /\ nAdmin = 2 /\ voicePreferredModel = "qwen2"
    /\ modelReply = ModelRefused
\* get-model has returned the model stored by a set-model call.
C38_ReadBack == modelReply = ModelIs("mistral:latest")

\* C39: a request that builds its prompt while history is disabled gets no
\* history section, whatever the store holds; and the setting is read again
\* at completion: the value in force when the stream ends decides whether the
\* turn is appended, not the value in force when the request was admitted.
C39_SettingReadTwice ==
    [][\A s \in Slots :
         /\ (BuildStep(s) /\ ~voiceHistoryEnabled)
            => /\ ~req'[s].prompt.historySection.header
               /\ req'[s].prompt.historySection.blocks = <<>>
         /\ (BuildStep(s) /\ voiceHistoryEnabled /\ voiceHistory # <<>>
               /\ Formatted(Last(voiceHistory)) <= VOICE_HISTORY_CHAR_LIMIT)
            => req'[s].prompt.historySection.header
         /\ (SuccessStep(s) /\ req[s].enabledAtAdm # voiceHistoryEnabled)
            => voiceHistory' = IF voiceHistoryEnabled
                               THEN PushTurn(voiceHistory, Turn(req'[s].ret.question, req'[s].ret.answer))
                               ELSE voiceHistory]_vars
\* A request admitted with history enabled has completed with history
\* disabled: the one turn of the store is not its own.
C39_Witness ==
    \E s \in Slots :
        /\ req[s].pc = "done" /\ req[s].ret.success /\ req[s].n = 2
        /\ req[s].enabledAtAdm /\ ~voiceHistoryEnabled
        /\ Len(voiceHistory) = 1 /\ voiceHistory[1].q = Utterance(1)
\* A request admitted with history disabled has completed with history
\* enabled: its turn is in the store.
C39_AppendedAfterEnable ==
    \E s \in Slots :
        /\ req[s].pc = "done" /\ req[s].ret.success
        /\ ~req[s].enabledAtAdm /\ voiceHistoryEnabled
        /\ voiceHistory # <<>> /\ Last(voiceHistory).q = req[s].ret.question
\* A request admitted with history enabled has built its prompt with history
\* disabled and a turn in the store: the prompt has no history section.
C39_PromptWithoutHistory ==
    \E s \in Slots :
        /\ req[s].pc = "fetch" /\ req[s].enabledAtAdm /\ ~voiceHistoryEnabled /\ nAdmin = 1
        /\ voiceHistory # <<>> /\ ~req[s].prompt.historySection.header

====
